---- MODULE Spec2Model ----
(***************************************************************************)
(* Verification model of the mycalpharma image positioner / kymograph      *)
(* simulator.  Three pages are modelled, each as its own specification     *)
(* over one set of variables:                                              *)
(*   SpecEditor  - src/app/layout-editor/page.tsx  (Editor)                *)
(*   Spec        - src/app/exp1/page.tsx:1-1027    (Exp1Page)              *)
(*   SpecShow    - src/app/show/page.tsx           (Showcase)              *)
(* Lengths are canonical pixels (integers), angles are centidegrees, and   *)
(* real-valued factors are fixed-point numbers with denominator FP.        *)
(***************************************************************************)
EXTENDS Integers, Sequences, FiniteSets, TLC

(***************************************************************************)
(* Optional values: `undefined' / null is the empty tuple.                 *)
(***************************************************************************)
None == << >>

Min(a, b) == IF a <= b THEN a ELSE b

Max(a, b) == IF a >= b THEN a ELSE b

Abs(a) == IF a >= 0 THEN a ELSE 0 - a

(***************************************************************************)
(* Bounds of the exploration.                                              *)
(***************************************************************************)
\* number of sub-images the editor explores
MaxImages == 1
\* number of drawable areas the editor explores
MaxAreas == 1
\* number of arrow-key presses the editor explores
MaxKeyPresses == 1
\* number of pointer-move events the editor explores
MaxPointerMoves == 1
\* last value of the millisecond clock (Date.now())
MaxClock == 1

(***************************************************************************)
(* Inputs of the editor.                                                   *)
(***************************************************************************)
\* natural sizes of the base images a user uploads
BaseSizes == { [width |-> 100, height |-> 100], [width |-> 200, height |-> 100] }

\* natural sizes of the sub-images a user uploads (each fits every base image)
ImageSizes == { [width |-> 30, height |-> 30], [width |-> 80, height |-> 60] }

\* pointer positions inside the container, in screen pixels from its origin
PointerInside == { << 10, 10 >>, << 70, 40 >>, << 70, 70 >> }

\* pointer positions of a mousemove delivered to the container (an item that
\* hangs over its edge delivers it from outside the base image)
PointerAnywhere == PointerInside \cup { << -20, 130 >>, << 130, -20 >> }

ArrowKeys == { "ArrowLeft", "ArrowRight", "ArrowUp", "ArrowDown" }

VARIABLES
    \* ---- Editor (layout-editor/page.tsx) ----
    baseImageDimensions,   \* None or [width, height]
    subImages,             \* sequence of SubImage records
    drawableAreas,         \* sequence of DrawableArea records
    selectedImage,         \* None or an image id
    selectedArea,          \* None or an area id
    dragState,             \* DragState record
    settingCenter,
    creatingArea,
    areaStart,             \* None or [x, y]
    pendingLoads,          \* FileReader/Image loads in flight
    keyPresses,            \* number of arrow-key presses so far
    pointerMoves,          \* number of pointer-move events so far
    \* ---- shared by the pages ----
    scale,                 \* display scale in percent (100 = 1.0)
    wrapperWidth,          \* canvasWrapperRef.current.clientWidth
    now,                   \* Date.now()
    \* ---- Exp1Page: the experiment store (exp1/page.tsx:25-40) ----
    activeTab,
    imageData,             \* [baseImage, baseImageDimensions, subImages, drawableAreas]
    experimentRunning,
    selectedBaseline,
    selectedConcentration, \* hundredths of a millilitre
    currentLeverRotation,  \* centidegrees
    observations,
    autoScroll,
    currentGraphX,
    canvasData,            \* area id -> None or a snapshot
    canvasWidths,          \* area id -> stored width, 0 when there is none
    \* ---- Exp1Page: component state and refs (exp1/page.tsx:45-57) ----
    mounted,               \* the page component is mounted
    toast,                 \* None or the message shown
    canvasRefs,            \* area id -> None or the canvas element
    contextRefs,           \* area id -> a 2d context is held
    drawableAreaRefs,      \* area id -> None or the scroll container
    animationFrameRef,     \* handle of the last requested frame, 0 when unset
    lastPenPositionRef,    \* area id -> None or [x, y]
    pendingFrames,         \* animate closures waiting for their next frame
    pendingRestores,       \* snapshot images whose onload has not fired
    runsStarted,           \* number of runs started so far
    \* ---- Showcase (show/page.tsx:40-64); it also has imageData, scale,
    \* ---- selectedImage, settingCenter, canvasRefs and contextRefs ----
    jsonInput,             \* the text of the paste box
    error,                 \* the message under the paste box, "" when none
    settingPenTip,
    areaScrollPositions,   \* area id -> scroll offset
    rotatingImage,         \* None or the id of the image being rotated
    isDrawingMode,
    lastDrawnPositions,    \* area id -> [x, y], for the areas that have one
    rotationStartAngle,    \* centidegrees
    rotationStartMouseAngle,
    showMoves,             \* number of pointer-move events so far
    \* ---- the observation table (exp1/page.tsx:36) ----
    maxResponse            \* the Maximum Response field, in millimetres

editorVars == << baseImageDimensions, subImages, drawableAreas, selectedImage,
                 selectedArea, dragState, settingCenter, creatingArea,
                 areaStart, pendingLoads, keyPresses, pointerMoves >>

sharedVars == << scale, wrapperWidth, now >>

storeVars == << activeTab, imageData, experimentRunning, selectedBaseline,
                selectedConcentration, currentLeverRotation, observations,
                autoScroll, currentGraphX, canvasData, canvasWidths >>

pageVars == << mounted, toast, canvasRefs, contextRefs, drawableAreaRefs,
               animationFrameRef, lastPenPositionRef, pendingFrames,
               pendingRestores, runsStarted >>

showVars == << jsonInput, error, settingPenTip, areaScrollPositions,
               rotatingImage, isDrawingMode, lastDrawnPositions,
               rotationStartAngle, rotationStartMouseAngle, showMoves >>

tableVars == << maxResponse >>

vars == << editorVars, sharedVars, storeVars, pageVars, showVars, tableVars >>

(***************************************************************************)
(* Numbers.  A real value v is the integer v * FP; Math.exp, Math.sin,     *)
(* Math.cos and Math.pow are computed on that representation.              *)
(***************************************************************************)
FP == 10000

\* an optional number: None, or the one-element tuple of its value
Some(v) == << v >>

Val(o) == o[1]

RECURSIVE SqrtSearch(_, _, _)
SqrtSearch(n, lo, hi) ==
    IF lo >= hi THEN lo
    ELSE LET mid == (lo + hi + 1) \div 2
         IN IF mid * mid <= n THEN SqrtSearch(n, mid, hi)
            ELSE SqrtSearch(n, lo, mid - 1)

\* Math.sqrt on integers (largest root whose square fits 32 bits)
Sqrt(n) == SqrtSearch(n, 0, 46340)

\* Math.exp(-x) for x >= 0
RECURSIVE ExpNeg(_)
ExpNeg(x) ==
    IF x <= FP \div 8
    THEN FP - x + (x * x) \div (2 * FP) - (((x * x) \div FP) * x) \div (6 * FP)
    ELSE LET h == ExpNeg(x \div 2) IN (h * h) \div FP

\* (angle * Math.PI) / 180 for an angle in centidegrees
Radians(cdeg) == (cdeg * 17453) \div 10000

\* the sine series, for an angle within 45 degrees of 0
SinSeries(cdeg) ==
    LET r == Radians(cdeg)
        r2 == (r * r) \div FP
    IN r - (r2 * r) \div (6 * FP) + (((r2 * r2) \div FP) * r) \div (120 * FP)

\* the cosine series, for an angle within 45 degrees of 0
CosSeries(cdeg) ==
    LET r == Radians(cdeg)
        r2 == (r * r) \div FP
    IN FP - r2 \div 2 + (r2 * r2) \div (24 * FP)

\* the quarter turn nearest to an angle, and the angle's offset from it
QuarterTurns(cdeg) == (cdeg + 4500) \div 9000

QuarterOffset(cdeg) == cdeg - 9000 * QuarterTurns(cdeg)

\* Math.sin(radians)
Sin(cdeg) ==
    LET k == QuarterTurns(cdeg) % 4
        b == QuarterOffset(cdeg)
    IN CASE k = 0 -> SinSeries(b)
         [] k = 1 -> CosSeries(b)
         [] k = 2 -> 0 - SinSeries(b)
         [] OTHER -> 0 - CosSeries(b)

\* Math.cos(radians)
Cos(cdeg) ==
    LET k == QuarterTurns(cdeg) % 4
        b == QuarterOffset(cdeg)
    IN CASE k = 0 -> CosSeries(b)
         [] k = 1 -> 0 - SinSeries(b)
         [] k = 2 -> 0 - CosSeries(b)
         [] OTHER -> SinSeries(b)

\* Math.pow(c, hillCoefficient) with hillCoefficient = 1.5
Pow15(c) == ((c \div 10) * Sqrt(c * FP)) \div (FP \div 10)

\* rotatePoint(x, y, centerX, centerY, angle)
rotatePoint(x, y, centerX, centerY, angle) ==
    LET cos == Cos(angle)
        sin == Sin(angle)
        dx == x - centerX
        dy == y - centerY
    IN [ x |-> centerX + (dx * cos - dy * sin) \div FP,
         y |-> centerY + (dx * sin + dy * cos) \div FP ]

(***************************************************************************)
(* Exp1Page: constants and scenes                                          *)
(***************************************************************************)
ORGAN_BATH_VOLUME == 20

MAX_ROTATION_ANGLE == 20

\* EC50 = 0.5
EC50 == 5000

WashDuration == 1500

InjectDuration == 3000

scrollDistance == 150

\* number of runs (wash or inject) started in one exploration
MaxRuns == 2

\* the stock concentrations and volumes the exploration selects from
availableBaselines == { 20, 400 }

availableConcentrations == { 5, 80 }

\* time between two animation frames, in milliseconds
FrameGaps == { 1000 }

\* the tabs the exploration visits
Tabs == { "setup", "observation" }

\* the id performWash and performInjection look the lever up by
LeverId == "sub-1770900057664-0"

Lever(center, penTip) ==
    [ id |-> LeverId, x |-> 100, y |-> 100, width |-> 200, height |-> 20,
      rotation |-> 0, zIndex |-> 2,
      centerX |-> IF center THEN Some(300) ELSE None,
      centerY |-> IF center THEN Some(110) ELSE None,
      penTipOffsetX |-> IF penTip THEN Some(0) ELSE None,
      penTipOffsetY |-> IF penTip THEN Some(10) ELSE None ]

Area(x, scrollWidth) ==
    [ id |-> "area-1", x |-> x, y |-> 60, width |-> 100, height |-> 150,
      scrollWidth |-> scrollWidth, zIndex |-> 1 ]

Scene(base, images, areas) ==
    [ baseImage |-> IF base THEN Some("data:base") ELSE None,
      baseImageDimensions |-> [ width |-> 400, height |-> 300 ],
      subImages |-> images,
      drawableAreas |-> areas ]

\* the scenes the store can hold when the page opens
Scenes ==
    { Scene(FALSE, << Lever(TRUE, TRUE) >>, << Area(50, 200) >>),
      Scene(TRUE, << >>, << Area(50, 200) >>),
      Scene(TRUE, << Lever(FALSE, FALSE) >>, << Area(50, 200) >>),
      Scene(TRUE, << Lever(TRUE, FALSE) >>, << Area(50, 200) >>),
      Scene(TRUE, << Lever(TRUE, TRUE) >>, << Area(50, 200) >>),
      Scene(TRUE, << Lever(TRUE, TRUE) >>, << Area(250, 35) >>) }

AreaIds(data) == { data.drawableAreas[i].id : i \in DOMAIN data.drawableAreas }

AreaOf(data, id) ==
    data.drawableAreas[CHOOSE i \in DOMAIN data.drawableAreas :
                          data.drawableAreas[i].id = id]

\* the experiment page is not open
ExpIdle ==
    /\ activeTab = "setup"
    /\ maxResponse = 100
    /\ imageData = Scene(FALSE, << >>, << >>)
    /\ experimentRunning = FALSE
    /\ selectedBaseline = 20
    /\ selectedConcentration = 5
    /\ currentLeverRotation = 0
    /\ observations = << >>
    /\ autoScroll = TRUE
    /\ currentGraphX = 0
    /\ canvasData = << >>
    /\ canvasWidths = << >>
    /\ mounted = FALSE
    /\ toast = None
    /\ canvasRefs = << >>
    /\ contextRefs = << >>
    /\ drawableAreaRefs = << >>
    /\ animationFrameRef = 0
    /\ lastPenPositionRef = << >>
    /\ pendingFrames = {}
    /\ pendingRestores = {}
    /\ runsStarted = 0
    /\ maxResponse = 100

\* the showcase page is not open
ShowIdle ==
    /\ jsonInput = ""
    /\ error = ""
    /\ settingPenTip = FALSE
    /\ areaScrollPositions = << >>
    /\ rotatingImage = None
    /\ isDrawingMode = TRUE
    /\ lastDrawnPositions = << >>
    /\ rotationStartAngle = 0
    /\ rotationStartMouseAngle = 0
    /\ showMoves = 0

(***************************************************************************)
(* Editor: helpers                                                         *)
(***************************************************************************)
\* Math.min(scaleX, scaleY, 1), in percent
ScaleOf(dim, clientWidth, maxHeight) ==
    Min(Min(((clientWidth - 48) * 100) \div dim.width,
            (maxHeight * 100) \div dim.height), 100)

\* (e.clientX - containerRect.left) / scale
ToCanonical(p, s) == (p * 100) \div s

\* subImages.find(i => i.id === id): index of the first match, 0 if none
FindIndex(items, id) ==
    IF \E i \in DOMAIN items : items[i].id = id
    THEN CHOOSE i \in DOMAIN items :
            items[i].id = id /\ \A j \in 1..(i - 1) : items[j].id # id
    ELSE 0

\* Math.max(0, ...items.map(i => i.zIndex))
MaxZ(images, areas) ==
    LET zs == { images[i].zIndex : i \in DOMAIN images }
              \cup { areas[i].zIndex : i \in DOMAIN areas } \cup { 0 }
    IN CHOOSE z \in zs : \A w \in zs : w <= z

\* no mouse button is held over the container: the pointer is free to reach
\* the file inputs and the buttons of the side panel
PointerFree == ~dragState.isDragging /\ areaStart = None

NoDrag == [ isDragging |-> FALSE, imageId |-> None, areaId |-> None,
            startX |-> 0, startY |-> 0, offsetX |-> 0, offsetY |-> 0 ]

\* the pointer is over the rendered box of an item
PointerOver(item, cx, cy) ==
    /\ cx >= item.x /\ cx <= item.x + item.width
    /\ cy >= item.y /\ cy <= item.y + item.height

\* prev.map(image => image.id === id ? { ...image, x, y } : image)
MoveTo(items, id, newX, newY) ==
    [ i \in DOMAIN items |->
        IF items[i].id = id THEN [ items[i] EXCEPT !.x = newX, !.y = newY ]
        ELSE items[i] ]

(***************************************************************************)
(* Editor: operations                                                      *)
(***************************************************************************)
EditorInit ==
    /\ baseImageDimensions = None
    /\ subImages = << >>
    /\ drawableAreas = << >>
    /\ selectedImage = None
    /\ selectedArea = None
    /\ dragState = NoDrag
    /\ scale = 100
    /\ settingCenter = FALSE
    /\ creatingArea = FALSE
    /\ areaStart = None
    /\ wrapperWidth = 148
    /\ pendingLoads = {}
    /\ now = 0
    /\ keyPresses = 0
    /\ pointerMoves = 0
    /\ ExpIdle
    /\ ShowIdle

\* the millisecond clock advances
Tick ==
    /\ now < MaxClock
    /\ now' = now + 1
    /\ UNCHANGED << baseImageDimensions, subImages, drawableAreas, selectedImage,
                    selectedArea, dragState, scale, settingCenter, creatingArea,
                    areaStart, wrapperWidth, pendingLoads, keyPresses, pointerMoves >>
    /\ UNCHANGED << storeVars, pageVars, showVars, tableVars >>

\* img.onload of handleBaseImageUpload, followed by the scale effect
handleBaseImageUpload ==
    /\ UNCHANGED << storeVars, pageVars, showVars, tableVars >>
    /\ \E dim \in BaseSizes :
           /\ PointerFree
           /\ baseImageDimensions' = dim
           /\ scale' = ScaleOf(dim, wrapperWidth, 600)
           /\ UNCHANGED << subImages, drawableAreas, selectedImage, selectedArea,
                           dragState, settingCenter, creatingArea, areaStart,
                           wrapperWidth, pendingLoads, now, keyPresses, pointerMoves >>

\* handleSubImagesUpload for a choice of files that leaves at most max
\* images: one reader per file; maxZ is read when the handler runs
handleSubImagesUploadOf(max) ==
    /\ UNCHANGED << storeVars, pageVars, showVars, tableVars >>
    /\ \E size \in ImageSizes,
          files \in 1..(max - Len(subImages) - Cardinality(pendingLoads)) :
           /\ PointerFree
           /\ pendingLoads' = pendingLoads \cup
                 { [ index |-> index, maxZ |-> MaxZ(subImages, drawableAreas),
                     width |-> size.width, height |-> size.height,
                     batch |-> Len(subImages) + Cardinality(pendingLoads) ]
                   : index \in 0..(files - 1) }
           /\ UNCHANGED << baseImageDimensions, subImages, drawableAreas, selectedImage,
                           selectedArea, dragState, scale, settingCenter, creatingArea,
                           areaStart, wrapperWidth, now, keyPresses, pointerMoves >>

handleSubImagesUpload == handleSubImagesUploadOf(MaxImages)

\* img.onload of one uploaded sub-image
subImageOnload ==
    /\ UNCHANGED << storeVars, pageVars, showVars, tableVars >>
    /\ \E ld \in pendingLoads :
           /\ pendingLoads' = pendingLoads \ { ld }
           /\ subImages' = Append(subImages,
                 [ id |-> << now, ld.index >>,
                   x |-> 50 + ld.index * 20, y |-> 50 + ld.index * 20,
                   width |-> ld.width, height |-> ld.height,
                   zIndex |-> ld.maxZ + ld.index + 1,
                   centerX |-> None, centerY |-> None ])
           /\ UNCHANGED << baseImageDimensions, drawableAreas, selectedImage,
                           selectedArea, dragState, scale, settingCenter, creatingArea,
                           areaStart, wrapperWidth, now, keyPresses, pointerMoves >>

\* handleMouseDown(e, imageId) / handleMouseDown(e, undefined, areaId)
handleMouseDown ==
    /\ baseImageDimensions # None
    /\ ~settingCenter /\ ~creatingArea
    /\ \E p \in PointerInside :
        LET px == p[1]
            py == p[2]
            cx == ToCanonical(px, scale)
            cy == ToCanonical(py, scale)
        IN \/ \E i \in DOMAIN subImages :
                /\ PointerOver(subImages[i], cx, cy)
                /\ LET img == subImages[FindIndex(subImages, subImages[i].id)]
                   IN /\ selectedImage' = img.id
                      /\ selectedArea' = None
                      /\ dragState' = [ isDragging |-> TRUE, imageId |-> img.id,
                                        areaId |-> None, startX |-> px, startY |-> py,
                                        offsetX |-> cx - img.x,
                                        offsetY |-> cy - img.y ]
           \/ \E i \in DOMAIN drawableAreas :
                /\ PointerOver(drawableAreas[i], cx, cy)
                /\ LET area == drawableAreas[FindIndex(drawableAreas, drawableAreas[i].id)]
                   IN /\ selectedArea' = area.id
                      /\ selectedImage' = None
                      /\ dragState' = [ isDragging |-> TRUE, imageId |-> None,
                                        areaId |-> area.id, startX |-> px, startY |-> py,
                                        offsetX |-> cx - area.x,
                                        offsetY |-> ToCanonical(px, scale) - area.y ]
    /\ UNCHANGED << baseImageDimensions, subImages, drawableAreas, scale,
                    settingCenter, creatingArea, areaStart, wrapperWidth,
                    pendingLoads, now, keyPresses, pointerMoves >>
    /\ UNCHANGED << storeVars, pageVars, showVars, tableVars >>

\* the clamped top-left of a dragged item
DragTarget(item, cx, cy, dim) ==
    [ x |-> Max(0, Min(cx - dragState.offsetX, dim.width - item.width)),
      y |-> Max(0, Min(cy - dragState.offsetY, dim.height - item.height)) ]

\* handleMouseMove
handleMouseMove ==
    /\ dragState.isDragging
    /\ baseImageDimensions # None
    /\ pointerMoves < MaxPointerMoves
    /\ pointerMoves' = pointerMoves + 1
    /\ \E p \in PointerAnywhere :
        LET cx == ToCanonical(p[1], scale)
            cy == ToCanonical(p[2], scale)
        IN IF dragState.imageId # None
           THEN /\ FindIndex(subImages, dragState.imageId) # 0
                /\ LET img == subImages[FindIndex(subImages, dragState.imageId)]
                       t == DragTarget(img, cx, cy, baseImageDimensions)
                   IN subImages' = MoveTo(subImages, dragState.imageId, t.x, t.y)
                /\ UNCHANGED drawableAreas
           ELSE /\ dragState.areaId # None
                /\ FindIndex(drawableAreas, dragState.areaId) # 0
                /\ LET area == drawableAreas[FindIndex(drawableAreas, dragState.areaId)]
                       t == DragTarget(area, cx, cy, baseImageDimensions)
                   IN drawableAreas' = MoveTo(drawableAreas, dragState.areaId, t.x, t.y)
                /\ UNCHANGED subImages
    /\ UNCHANGED << baseImageDimensions, selectedImage, selectedArea, dragState,
                    scale, settingCenter, creatingArea, areaStart, wrapperWidth,
                    pendingLoads, now, keyPresses >>
    /\ UNCHANGED << storeVars, pageVars, showVars, tableVars >>

\* handleMouseUp (also onMouseLeave)
handleMouseUp ==
    /\ dragState.isDragging
    /\ dragState' = NoDrag
    /\ UNCHANGED << baseImageDimensions, subImages, drawableAreas, selectedImage,
                    selectedArea, scale, settingCenter, creatingArea, areaStart,
                    wrapperWidth, pendingLoads, now, keyPresses, pointerMoves >>
    /\ UNCHANGED << storeVars, pageVars, showVars, tableVars >>

\* the position an arrow key moves an item to
NudgeTarget(item, key, step, dim) ==
    [ x |-> IF key = "ArrowLeft" THEN Max(0, item.x - step)
            ELSE IF key = "ArrowRight" THEN Min(dim.width - item.width, item.x + step)
            ELSE item.x,
      y |-> IF key = "ArrowUp" THEN Max(0, item.y - step)
            ELSE IF key = "ArrowDown" THEN Min(dim.height - item.height, item.y + step)
            ELSE item.y ]

\* handleKeyDown
handleKeyDown ==
    /\ baseImageDimensions # None
    /\ keyPresses < MaxKeyPresses
    /\ keyPresses' = keyPresses + 1
    /\ \E key \in ArrowKeys, shiftKey \in BOOLEAN :
        LET step == IF shiftKey THEN 10 ELSE 1
        IN IF selectedImage # None
           THEN /\ FindIndex(subImages, selectedImage) # 0
                /\ LET img == subImages[FindIndex(subImages, selectedImage)]
                       t == NudgeTarget(img, key, step, baseImageDimensions)
                   IN subImages' = MoveTo(subImages, selectedImage, t.x, t.y)
                /\ UNCHANGED drawableAreas
           ELSE /\ selectedArea # None
                /\ FindIndex(drawableAreas, selectedArea) # 0
                /\ LET area == drawableAreas[FindIndex(drawableAreas, selectedArea)]
                       t == NudgeTarget(area, key, step, baseImageDimensions)
                   IN drawableAreas' = MoveTo(drawableAreas, selectedArea, t.x, t.y)
                /\ UNCHANGED subImages
    /\ UNCHANGED << baseImageDimensions, selectedImage, selectedArea, dragState,
                    scale, settingCenter, creatingArea, areaStart, wrapperWidth,
                    pendingLoads, now, pointerMoves >>
    /\ UNCHANGED << storeVars, pageVars, showVars, tableVars >>

\* the "Create Drawable Area" / "Cancel Create Area" button
toggleCreatingArea ==
    /\ PointerFree
    /\ creatingArea' = ~creatingArea
    /\ areaStart' = None
    /\ UNCHANGED << baseImageDimensions, subImages, drawableAreas, selectedImage,
                    selectedArea, dragState, scale, settingCenter, wrapperWidth,
                    pendingLoads, now, keyPresses, pointerMoves >>
    /\ UNCHANGED << storeVars, pageVars, showVars, tableVars >>

\* handleCanvasMouseDown
handleCanvasMouseDown ==
    /\ baseImageDimensions # None
    /\ creatingArea
    /\ \E p \in PointerInside :
        areaStart' = [ x |-> ToCanonical(p[1], scale), y |-> ToCanonical(p[2], scale) ]
    /\ UNCHANGED << baseImageDimensions, subImages, drawableAreas, selectedImage,
                    selectedArea, dragState, scale, settingCenter, creatingArea,
                    wrapperWidth, pendingLoads, now, keyPresses, pointerMoves >>
    /\ UNCHANGED << storeVars, pageVars, showVars, tableVars >>

\* pointer positions of the mouseup that ends an area-creation drag
PointerReleases == PointerInside \cup { << 30, 30 >> }

\* handleCanvasMouseUp for a mouseup at screen position p
handleCanvasMouseUpAt(p) ==
    /\ baseImageDimensions # None
    /\ creatingArea /\ areaStart # None
    /\ LET endX == ToCanonical(p[1], scale)
           endY == ToCanonical(p[2], scale)
           width == Abs(endX - areaStart.x)
           height == Abs(endY - areaStart.y)
       IN IF width > 20 /\ height > 20
          THEN /\ Len(drawableAreas) < MaxAreas
               /\ drawableAreas' = Append(drawableAreas,
                     [ id |-> << now >>,
                       x |-> Min(areaStart.x, endX), y |-> Min(areaStart.y, endY),
                       width |-> width, height |-> height,
                       scrollWidth |-> width * 3,
                       zIndex |-> MaxZ(subImages, drawableAreas) + 1 ])
          ELSE UNCHANGED drawableAreas
    /\ areaStart' = None
    /\ creatingArea' = FALSE
    /\ UNCHANGED << baseImageDimensions, subImages, selectedImage, selectedArea,
                    dragState, scale, settingCenter, wrapperWidth, pendingLoads,
                    now, keyPresses, pointerMoves >>
    /\ UNCHANGED << storeVars, pageVars, showVars, tableVars >>

\* handleCanvasMouseUp
handleCanvasMouseUp == \E p \in PointerReleases : handleCanvasMouseUpAt(p)

\* the editor page is not open
EditorIdle ==
    /\ baseImageDimensions = None
    /\ subImages = << >>
    /\ drawableAreas = << >>
    /\ selectedImage = None
    /\ selectedArea = None
    /\ dragState = NoDrag
    /\ settingCenter = FALSE
    /\ creatingArea = FALSE
    /\ areaStart = None
    /\ pendingLoads = {}
    /\ keyPresses = 0
    /\ pointerMoves = 0

EditorNext ==
    \/ Tick
    \/ handleBaseImageUpload
    \/ handleSubImagesUpload
    \/ subImageOnload
    \/ handleMouseDown
    \/ handleMouseMove
    \/ handleMouseUp
    \/ handleKeyDown
    \/ toggleCreatingArea
    \/ handleCanvasMouseDown
    \/ handleCanvasMouseUp

SpecEditor == EditorInit /\ [][EditorNext]_vars

\* number of images in an exploration of the uploads alone
MaxUploads == 3

\* the file input, for single files and batches
uploadFiles == handleSubImagesUploadOf(MaxUploads)

UploadNext ==
    \/ uploadFiles
    \/ subImageOnload
    \/ Tick

SpecUpload == EditorInit /\ [][UploadNext]_vars

\* the widths the canvas wrapper takes when the window is resized
WrapperWidths == { 98, 148 }

\* the window is resized: the wrapper's clientWidth changes.  The editor
\* registers no resize listener and the scale effect depends on
\* baseImageDimensions only, so nothing else is written
resizeViewport ==
    /\ \E width \in WrapperWidths : width # wrapperWidth /\ wrapperWidth' = width
    /\ UNCHANGED << baseImageDimensions, subImages, drawableAreas, selectedImage,
                    selectedArea, dragState, scale, settingCenter, creatingArea,
                    areaStart, now, pendingLoads, keyPresses, pointerMoves >>
    /\ UNCHANGED << storeVars, pageVars, showVars, tableVars >>

ViewportNext ==
    \/ handleBaseImageUpload
    \/ resizeViewport
    \/ uploadFiles
    \/ subImageOnload
    \/ Tick

SpecViewport == EditorInit /\ [][ViewportNext]_vars

\* items.sort((a, b) => a.zIndex - b.zIndex) places one more item: the sort
\* is stable, so the item goes behind the items of the same zIndex
RECURSIVE InsertByZIndex(_, _)
InsertByZIndex(sorted, item) ==
    IF sorted = << >> THEN << item >>
    ELSE IF Head(sorted).zIndex <= item.zIndex
         THEN << Head(sorted) >> \o InsertByZIndex(Tail(sorted), item)
         ELSE << item >> \o sorted

\* [...items].sort((a, b) => a.zIndex - b.zIndex)
RECURSIVE SortByZIndex(_)
SortByZIndex(items) ==
    IF items = << >> THEN << >>
    ELSE InsertByZIndex(SortByZIndex(SubSeq(items, 1, Len(items) - 1)),
                        items[Len(items)])

\* one branch of changeZIndex: the list of the item's own type, sorted, with
\* the zIndex of the item exchanged with that of the next (up) or the
\* previous (down) item of that list
Reordered(list, id, direction) ==
    LET items == SortByZIndex(list)
        index == FindIndex(items, id)
        other == IF direction = "up" /\ index < Len(items) THEN index + 1
                 ELSE IF direction = "down" /\ index > 1 THEN index - 1
                 ELSE index
    IN [ items EXCEPT ![index].zIndex = items[other].zIndex,
                      ![other].zIndex = items[index].zIndex ]

\* changeZIndex(id, direction, type)
changeZIndexOf(id, direction, type) ==
    /\ IF type = "image"
       THEN /\ subImages' = IF FindIndex(subImages, id) = 0 THEN subImages
                            ELSE Reordered(subImages, id, direction)
            /\ UNCHANGED drawableAreas
       ELSE /\ drawableAreas' = IF FindIndex(drawableAreas, id) = 0 THEN drawableAreas
                                ELSE Reordered(drawableAreas, id, direction)
            /\ UNCHANGED subImages
    /\ UNCHANGED << baseImageDimensions, selectedImage, selectedArea, dragState,
                    scale, settingCenter, creatingArea, areaStart, wrapperWidth,
                    pendingLoads, now, keyPresses, pointerMoves >>
    /\ UNCHANGED << storeVars, pageVars, showVars, tableVars >>

\* the items of the side panel's list, each with its two arrow buttons
ListedItems ==
    { [ type |-> "image", id |-> subImages[i].id ] : i \in DOMAIN subImages }
    \cup { [ type |-> "area", id |-> drawableAreas[i].id ] : i \in DOMAIN drawableAreas }

\* a click on the up or the down arrow of a listed item
changeZIndex ==
    /\ PointerFree
    /\ \E item \in ListedItems, direction \in { "up", "down" } :
          changeZIndexOf(item.id, direction, item.type)

\* number of images in an exploration of the side panel's list
MaxListed == 2

\* the file input, for the images of the list
uploadListed == handleSubImagesUploadOf(MaxListed)

OrderNext ==
    \/ handleBaseImageUpload
    \/ uploadListed
    \/ subImageOnload
    \/ Tick
    \/ toggleCreatingArea
    \/ handleCanvasMouseDown
    \/ handleCanvasMouseUp
    \/ changeZIndex

SpecOrder == EditorInit /\ [][OrderNext]_vars

\* a click on a row of the side panel's list selects the item
selectItem ==
    /\ PointerFree
    /\ \E item \in ListedItems :
          IF item.type = "image"
          THEN selectedImage' = item.id /\ selectedArea' = None
          ELSE selectedArea' = item.id /\ selectedImage' = None
    /\ UNCHANGED << baseImageDimensions, subImages, drawableAreas, dragState,
                    scale, settingCenter, creatingArea, areaStart, wrapperWidth,
                    pendingLoads, now, keyPresses, pointerMoves >>
    /\ UNCHANGED << storeVars, pageVars, showVars, tableVars >>

\* the Set Center Point / Cancel Set Center button of the Image Controls
\* panel, rendered for the selected image
setSettingCenter ==
    /\ PointerFree
    /\ selectedImage # None /\ FindIndex(subImages, selectedImage) # 0
    /\ settingCenter' = ~settingCenter
    /\ UNCHANGED << baseImageDimensions, subImages, drawableAreas, selectedImage,
                    selectedArea, dragState, scale, creatingArea, areaStart,
                    wrapperWidth, pendingLoads, now, keyPresses, pointerMoves >>
    /\ UNCHANGED << storeVars, pageVars, showVars, tableVars >>

\* handleCanvasClick of the layout editor, bound to the container while
\* settingCenter && !creatingArea
Editor_handleCanvasClick ==
    /\ baseImageDimensions # None
    /\ settingCenter /\ ~creatingArea
    /\ IF selectedImage = None
       THEN UNCHANGED << subImages, settingCenter >>
       ELSE /\ \E p \in PointerInside :
                 subImages' =
                    [ i \in DOMAIN subImages |->
                        IF subImages[i].id = selectedImage
                        THEN [ subImages[i] EXCEPT
                                 !.centerX = Some(ToCanonical(p[1], scale)),
                                 !.centerY = Some(ToCanonical(p[2], scale)) ]
                        ELSE subImages[i] ]
            /\ settingCenter' = FALSE
    /\ UNCHANGED << baseImageDimensions, drawableAreas, selectedImage, selectedArea,
                    dragState, scale, creatingArea, areaStart, wrapperWidth,
                    pendingLoads, now, keyPresses, pointerMoves >>
    /\ UNCHANGED << storeVars, pageVars, showVars, tableVars >>

PivotNext ==
    \/ handleBaseImageUpload
    \/ uploadListed
    \/ subImageOnload
    \/ Tick
    \/ selectItem
    \/ setSettingCenter
    \/ Editor_handleCanvasClick

SpecPivot == EditorInit /\ [][PivotNext]_vars

(***************************************************************************)
(* Exp1Page: elements, snapshots and effects                               *)
(***************************************************************************)
\* a canvas element as React creates it (the default bitmap is 300 wide);
\* strokes are the segments << x1, y1, x2, y2 >> stroked on the bitmap,
\* grid tells whether the background and reference grid are painted
NewCanvas == [ width |-> 300, strokes |-> {}, grid |-> FALSE ]

\* the scroll container of an area as React creates it
NewDiv == [ scrollLeft |-> 0, attached |-> TRUE ]

\* canvasWidths[area.id] || area.scrollWidth * 3
StoredWidth(area, widths) ==
    IF widths[area.id] # 0 THEN widths[area.id] ELSE area.scrollWidth * 3

\* reading element.scrollLeft (0 for an element that is not rendered)
ScrollLeftOf(div) == IF div.attached THEN div.scrollLeft ELSE 0

\* element.scrollLeft = v: the browser keeps v within the scrollable range,
\* the styled width of the canvas less the width of the container
SetScrollLeft(div, v, area, widths, sc) ==
    IF div.attached
    THEN [ div EXCEPT !.scrollLeft =
             Max(0, Min(v, Max(0, (StoredWidth(area, widths) * sc) \div 100
                                   - (area.width * sc) \div 100))) ]
    ELSE div

\* an encoding that keeps the size of the bitmap and none of its content
toBlankDataURL(canvas) ==
    [ width |-> canvas.width, strokes |-> {}, grid |-> FALSE ]

\* canvas.toDataURL()
toDataURL(canvas) ==
    [ width |-> canvas.width, strokes |-> canvas.strokes, grid |-> canvas.grid ]

\* ctx.clearRect(0, 0, canvas.width, canvas.height); ctx.drawImage(img, 0, 0):
\* what lies beyond the canvas is not painted
drawImage(canvas, data) ==
    [ canvas EXCEPT
        !.strokes = { seg \in data.strokes :
                        seg[1] <= canvas.width /\ seg[3] <= canvas.width },
        !.grid = data.grid ]

\* ctx.moveTo(x1, y1); ctx.lineTo(x2, y2); ctx.stroke()
stroke(canvas, x1, y1, x2, y2) ==
    [ canvas EXCEPT !.strokes = @ \cup { << x1, y1, x2, y2 >> } ]

\* the canvas init/restore effect: the elements it leaves.  Assigning
\* canvas.height resets the bitmap; without saved data the grid is painted
InitCanvases(tab, data, refs, cdata, widths) ==
    [ id \in DOMAIN refs |->
        IF tab = "setup" /\ refs[id] # None
        THEN [ width |-> StoredWidth(AreaOf(data, id), widths),
               strokes |-> {},
               grid |-> (cdata[id] = None) ]
        ELSE refs[id] ]

\* the canvas init/restore effect: the contexts it records
InitContexts(tab, refs, ctxs) ==
    [ id \in DOMAIN ctxs |->
        IF tab = "setup" /\ refs[id] # None THEN TRUE ELSE ctxs[id] ]

\* the canvas init/restore effect: the image loads it starts
InitRestores(tab, refs, cdata) ==
    { [ area |-> id, data |-> cdata[id] ] :
        id \in { i \in DOMAIN refs :
                   tab = "setup" /\ refs[i] # None /\ cdata[i] # None } }

\* the scroll-restore effect
RestoreScroll(tab, data, divs, graphX, widths, sc) ==
    [ id \in DOMAIN divs |->
        IF tab = "setup" /\ divs[id] # None
        THEN SetScrollLeft(divs[id], (graphX * sc) \div 100,
                           AreaOf(data, id), widths, sc)
        ELSE divs[id] ]

\* the setup tab is removed from the document: the refs keep the elements
Detach(divs) ==
    [ id \in DOMAIN divs |->
        IF divs[id] # None THEN [ divs[id] EXCEPT !.attached = FALSE ]
        ELSE None ]

(***************************************************************************)
(* Exp1Page: the state after the page has opened on a scene of the store   *)
(***************************************************************************)
\* the page after its first render and effects; context tells whether
\* canvas.getContext('2d') returned a context (it returns null when the
\* browser cannot create one)
MountedWith(context) ==
    /\ EditorIdle
    /\ ShowIdle
    /\ wrapperWidth = 1000
    /\ now = 0
    /\ imageData \in Scenes
    /\ scale = ScaleOf(imageData.baseImageDimensions, wrapperWidth, 700)
    /\ activeTab = "setup"
    /\ experimentRunning = FALSE
    /\ selectedBaseline = 20
    /\ selectedConcentration = 5
    /\ currentLeverRotation = 0
    /\ observations = << >>
    /\ autoScroll = TRUE
    /\ currentGraphX = 0
    /\ canvasData = [ id \in AreaIds(imageData) |-> None ]
    /\ canvasWidths = [ id \in AreaIds(imageData) |-> 0 ]
    /\ mounted = TRUE
    /\ toast = None
    /\ canvasRefs =
          [ id \in AreaIds(imageData) |->
              [ InitCanvases("setup", imageData,
                             [ a \in AreaIds(imageData) |-> NewCanvas ],
                             canvasData, canvasWidths)[id]
                  EXCEPT !.grid = context ] ]
    /\ contextRefs = [ id \in AreaIds(imageData) |-> context ]
    /\ drawableAreaRefs = [ id \in AreaIds(imageData) |-> NewDiv ]
    /\ animationFrameRef = 0
    /\ lastPenPositionRef = [ id \in AreaIds(imageData) |-> None ]
    /\ pendingFrames = {}
    /\ pendingRestores = {}
    /\ runsStarted = 0
    /\ maxResponse = 100

Init == MountedWith(TRUE)

\* the page when the browser gave its canvases no context
InitNoContext == MountedWith(FALSE)

(***************************************************************************)
(* Exp1Page: the parameter controls                                        *)
(***************************************************************************)
\* the controls without their disabled attribute
ControlAlwaysEnabled == TRUE

\* disabled={experimentRunning} on the selects and on Wash, Inject, Reset
ControlEnabled == ~experimentRunning

\* the snapshot images the init/restore effect loads are data URLs: their
\* onload fires before the next user event and before the next frame modelled
ImagesLoaded == pendingRestores = {}

setSelectedBaseline ==
    /\ mounted /\ activeTab = "setup" /\ ControlEnabled /\ ImagesLoaded
    /\ \E v \in availableBaselines : selectedBaseline' = v
    /\ UNCHANGED << sharedVars, pageVars, activeTab, imageData, experimentRunning,
                    selectedConcentration, currentLeverRotation, observations,
                    autoScroll, currentGraphX, canvasData, canvasWidths >>
    /\ UNCHANGED << editorVars, showVars, tableVars >>

setSelectedConcentration ==
    /\ mounted /\ activeTab = "setup" /\ ControlEnabled /\ ImagesLoaded
    /\ \E v \in availableConcentrations : selectedConcentration' = v
    /\ UNCHANGED << sharedVars, pageVars, activeTab, imageData, experimentRunning,
                    selectedBaseline, currentLeverRotation, observations,
                    autoScroll, currentGraphX, canvasData, canvasWidths >>
    /\ UNCHANGED << editorVars, showVars, tableVars >>

\* the Auto-scroll button: setAutoScroll(!autoScroll)
setAutoScroll ==
    /\ mounted /\ activeTab = "setup" /\ ImagesLoaded
    /\ autoScroll' = ~autoScroll
    /\ UNCHANGED << sharedVars, pageVars, activeTab, imageData, experimentRunning,
                    selectedBaseline, selectedConcentration, currentLeverRotation,
                    observations, currentGraphX, canvasData, canvasWidths >>
    /\ UNCHANGED << editorVars, showVars, tableVars >>

(***************************************************************************)
(* Exp1Page: starting a run                                                *)
(***************************************************************************)
\* calculateResponse(baseline, concentration): the response in hundredths
\* of a percent
calculateResponse(baseline, concentration) ==
    LET concInBath == (baseline * concentration * 100) \div ORGAN_BATH_VOLUME
        numerator == Pow15(concInBath)
        denominator == Pow15(EC50) + numerator
    IN (1000 * numerator) \div (denominator \div 10)

\* the first check without its base image test
NoSubImages(data) == Len(data.subImages) = 0

\* !imageData.baseImage || imageData.subImages.length === 0
NoExperimentData(data) == data.baseImage = None \/ Len(data.subImages) = 0

\* the precondition checks of performWash and performInjection: the message
\* of the first one that fails, None when they all pass
Refusal(data) ==
    IF NoExperimentData(data)
    THEN Some("Please load experiment data first!")
    ELSE LET i == FindIndex(data.subImages, LeverId)
         IN IF i = 0 \/ data.subImages[i].centerX = None
                     \/ data.subImages[i].centerY = None
            THEN Some("Lever image not properly configured!")
            ELSE IF data.subImages[i].penTipOffsetX = None
                    \/ data.subImages[i].penTipOffsetY = None
                 THEN Some("Pen tip not set on lever image!")
                 ELSE None

\* the values the animate closure of a run captures when the run starts;
\* elapsed is Date.now() - startTime at the closure's latest frame
Run(kind, duration, targetRotation) ==
    [ rid |-> runsStarted + 1,
      kind |-> kind,
      duration |-> duration,
      elapsed |-> 0,
      startRotation |-> currentLeverRotation,
      targetRotation |-> targetRotation,
      imageData |-> imageData,
      leverImage |-> imageData.subImages[FindIndex(imageData.subImages, LeverId)],
      scale |-> scale,
      autoScroll |-> autoScroll,
      selectedBaseline |-> selectedBaseline,
      selectedConcentration |-> selectedConcentration,
      areaLastPos |-> lastPenPositionRef,
      startScrollPositions |-> [ id \in AreaIds(imageData) |-> None ] ]

\* what starting a run writes
StartRun(run, message) ==
    /\ runsStarted < MaxRuns
    /\ toast' = Some(message)
    /\ experimentRunning' = TRUE
    /\ pendingFrames' = pendingFrames \cup { run }
    /\ animationFrameRef' = run.rid
    /\ runsStarted' = runsStarted + 1
    /\ UNCHANGED << sharedVars, activeTab, imageData, selectedBaseline,
                    selectedConcentration, currentLeverRotation, observations,
                    autoScroll, currentGraphX, canvasData, canvasWidths,
                    mounted, canvasRefs, contextRefs, drawableAreaRefs,
                    lastPenPositionRef, pendingRestores >>

\* what a refused action writes: the error toast
Refuse(message) ==
    /\ toast' = message
    /\ UNCHANGED << sharedVars, storeVars, mounted, canvasRefs, contextRefs,
                    drawableAreaRefs, animationFrameRef, lastPenPositionRef,
                    pendingFrames, pendingRestores, runsStarted >>

\* the Wash button
performWash ==
    /\ mounted /\ activeTab = "setup" /\ ControlEnabled /\ ImagesLoaded
    /\ IF Refusal(imageData) # None
       THEN Refuse(Refusal(imageData))
       ELSE StartRun(Run("wash", WashDuration, 0), "Washing organ bath...")
    /\ UNCHANGED << editorVars, showVars, tableVars >>

\* the Inject button
performInjection ==
    /\ mounted /\ activeTab = "setup" /\ ControlEnabled /\ ImagesLoaded
    /\ IF Refusal(imageData) # None
       THEN Refuse(Refusal(imageData))
       ELSE StartRun(Run("inject", InjectDuration,
                         0 - (calculateResponse(selectedBaseline, selectedConcentration)
                                * MAX_ROTATION_ANGLE) \div 100),
                     "Injecting ACh...")
    /\ UNCHANGED << editorVars, showVars, tableVars >>

(***************************************************************************)
(* Exp1Page: the animation frames                                          *)
(***************************************************************************)
\* elapsed / duration without the upper limit
UnclampedProgress(elapsed, duration) == (elapsed * FP) \div duration

\* Math.min(elapsed / duration, 1)
Progress(elapsed, duration) == Min((elapsed * FP) \div duration, FP)

\* 1 - Math.exp(-5 * progress)
WashEase(progress) == FP - ExpNeg(5 * progress)

\* 1 / (1 + Math.exp(-8 * (progress - 0.5)))
InjectEase(progress) ==
    LET x == 8 * (progress - FP \div 2)
    IN IF x >= 0 THEN (FP * FP) \div (FP + ExpNeg(x))
       ELSE (ExpNeg(0 - x) * FP) \div (FP + ExpNeg(0 - x))

\* startRotation + (targetRotation - startRotation) * easeProgress
RotationAt(run, easeProgress) ==
    run.startRotation
      + ((run.targetRotation - run.startRotation) * easeProgress) \div FP

\* the pen tip of the lever at a rotation
PenTip(lever, angle) ==
    rotatePoint(lever.x + Val(lever.penTipOffsetX), lever.y + Val(lever.penTipOffsetY),
                Val(lever.centerX), Val(lever.centerY), angle)

\* a containment test that every point passes
ContainsAnywhere(area, pt) == TRUE

\* the containment test of a point against an area
Contains(area, pt) ==
    /\ pt.x >= area.x /\ pt.x <= area.x + area.width
    /\ pt.y >= area.y /\ pt.y <= area.y + area.height

\* setImageData(prev => ({ ...prev, subImages: prev.subImages.map(...) }))
SetRotation(data, id, rotation) ==
    [ data EXCEPT !.subImages =
        [ i \in DOMAIN data.subImages |->
            IF data.subImages[i].id = id
            THEN [ data.subImages[i] EXCEPT !.rotation = rotation ]
            ELSE data.subImages[i] ] ]

\* canvasUpdates merged into canvasData: a snapshot of every area's canvas
SaveCanvases(areas, refs, cdata) ==
    [ id \in DOMAIN cdata |->
        IF id \in AreaIds(areas) /\ refs[id] # None THEN toDataURL(refs[id])
        ELSE cdata[id] ]

\* scrollLeft / scale of an area's container, 0 without a container
ScrollOf(divs, id, sc) ==
    IF divs[id] # None THEN (ScrollLeftOf(divs[id]) * 100) \div sc ELSE 0

\* (canvas?.width || area.scrollWidth * 3) - area.width
MaxScrollLeft(canvas, area) ==
    (IF canvas # None THEN canvas.width ELSE area.scrollWidth * 3) - area.width

\* a segment that starts at the pen tip's start position whatever was drawn
\* before
WashSegmentFromStartPenTip(run, area, divs, lastPen) ==
    LET startPenTip == PenTip(run.leverImage, run.startRotation)
        baselinePenTip == PenTip(run.leverImage, 0)
        currentScroll == ScrollOf(divs, area.id, run.scale)
    IN << (startPenTip.x - area.x) + currentScroll,
          startPenTip.y - area.y,
          (baselinePenTip.x - area.x) + currentScroll,
          baselinePenTip.y - area.y >>

\* the segment the final wash frame draws on an area
WashSegment(run, area, divs, lastPen) ==
    LET startPenTip == PenTip(run.leverImage, run.startRotation)
        baselinePenTip == PenTip(run.leverImage, 0)
        lastPos == lastPen[area.id]
        currentScroll == ScrollOf(divs, area.id, run.scale)
    IN << IF lastPos # None THEN lastPos.x
          ELSE (startPenTip.x - area.x) + currentScroll,
          IF lastPos # None THEN lastPos.y ELSE startPenTip.y - area.y,
          (baselinePenTip.x - area.x) + currentScroll,
          baselinePenTip.y - area.y >>

\* the final wash frame draws on an area
WashDraws(run, area, ctxs) ==
    Contains(area, PenTip(run.leverImage, run.startRotation)) /\ ctxs[area.id]

\* one frame of performWash's animate, a frame gap after the previous one,
\* with the effects its state updates trigger
washAnimate ==
    /\ ImagesLoaded
    /\ \E run \in pendingFrames, gap \in FrameGaps :
        /\ run.kind = "wash"
        /\ LET progress == Progress(run.elapsed + gap, run.duration)
               currentRotation == RotationAt(run, WashEase(progress))
               areas == run.imageData.drawableAreas
               seg(id) == WashSegment(run, AreaOf(run.imageData, id),
                                      drawableAreaRefs, lastPenPositionRef)
               draws(id) == WashDraws(run, AreaOf(run.imageData, id), contextRefs)
               drawn == [ id \in DOMAIN canvasRefs |->
                            IF draws(id)
                            THEN stroke(canvasRefs[id], seg(id)[1], seg(id)[2],
                                        seg(id)[3], seg(id)[4])
                            ELSE canvasRefs[id] ]
               saved == SaveCanvases(run.imageData, drawn, canvasData)
               scrolls == Len(areas) > 0 /\ drawableAreaRefs[areas[1].id] # None
               clampedScroll ==
                   Max(0, Min(ScrollOf(drawableAreaRefs, areas[1].id, run.scale) + 15,
                              MaxScrollLeft(drawn[areas[1].id], areas[1])))
               divs == IF scrolls
                       THEN [ drawableAreaRefs EXCEPT ![areas[1].id] =
                                SetScrollLeft(@, (clampedScroll * run.scale) \div 100,
                                              areas[1], canvasWidths, scale) ]
                       ELSE drawableAreaRefs
           IN /\ currentLeverRotation' = currentRotation
              /\ imageData' = SetRotation(imageData, run.leverImage.id, currentRotation)
              /\ IF progress >= FP
                 THEN /\ lastPenPositionRef' =
                            [ id \in DOMAIN lastPenPositionRef |->
                                IF draws(id)
                                THEN [ x |-> seg(id)[3], y |-> seg(id)[4] ]
                                ELSE lastPenPositionRef[id] ]
                      /\ canvasData' = saved
                      /\ experimentRunning' = FALSE
                      /\ currentGraphX' = IF scrolls THEN clampedScroll ELSE currentGraphX
                      /\ toast' = Some("Wash completed")
                      /\ pendingFrames' = pendingFrames \ { run }
                      /\ canvasRefs' = InitCanvases(activeTab, imageData', drawn,
                                                    saved, canvasWidths)
                      /\ contextRefs' = InitContexts(activeTab, drawn, contextRefs)
                      /\ pendingRestores' = InitRestores(activeTab, drawn, saved)
                      /\ drawableAreaRefs' =
                            IF currentGraphX' # currentGraphX
                            THEN RestoreScroll(activeTab, imageData', divs,
                                               currentGraphX', canvasWidths, scale)
                            ELSE divs
                      /\ UNCHANGED animationFrameRef
                 ELSE /\ animationFrameRef' = run.rid
                      /\ pendingFrames' = (pendingFrames \ { run })
                            \cup { [ run EXCEPT !.elapsed = run.elapsed + gap ] }
                      /\ UNCHANGED << lastPenPositionRef, canvasData, experimentRunning,
                                      currentGraphX, toast, canvasRefs,
                                      contextRefs, pendingRestores, drawableAreaRefs >>
    /\ UNCHANGED << sharedVars, activeTab, selectedBaseline,
                    selectedConcentration, observations, autoScroll, canvasWidths,
                    mounted, runsStarted >>
    /\ UNCHANGED << editorVars, showVars, tableVars >>

\* expandCanvasIfNeeded(areaId, requiredWidth): the canvas is doubled.
\* The content read by getImageData is put back at the origin.
NeedsExpansion(canvas, ctx, requiredWidth) ==
    canvas # None /\ ctx /\ requiredWidth > canvas.width - 200

\* the body of animate's forEach for an area that contains the pen tip
InjectArea(run, area, pen, progress, canvas, ctx, divs, widths) ==
    LET id == area.id
        startScroll1 ==
            IF run.startScrollPositions[id] = None /\ divs[id] # None
            THEN Some(ScrollOf(divs, id, run.scale))
            ELSE run.startScrollPositions[id]
        startScroll == IF startScroll1 = None THEN 0 ELSE Val(startScroll1)
        currentScrollOffset == startScroll + (scrollDistance * progress) \div FP
        clampedScroll == Max(0, Min(currentScrollOffset, MaxScrollLeft(canvas, area)))
        div1 == IF run.autoScroll /\ divs[id] # None
                THEN SetScrollLeft(divs[id], (clampedScroll * run.scale) \div 100,
                                   area, widths, scale)
                ELSE divs[id]
        grows == NeedsExpansion(canvas, ctx,
                                (pen.x - area.x) + currentScrollOffset + 300)
        canvas1 == IF grows THEN [ canvas EXCEPT !.width = canvas.width * 2 ]
                   ELSE canvas
        canvasX == (pen.x - area.x) + currentScrollOffset
        canvasY == pen.y - area.y
        lastPos == run.areaLastPos[id]
    IN [ canvas |-> IF lastPos # None /\ ctx
                    THEN stroke(canvas1, lastPos.x, lastPos.y, canvasX, canvasY)
                    ELSE canvas1,
         div |-> div1,
         grows |-> grows,
         startScroll |-> startScroll1,
         pos |-> [ x |-> canvasX, y |-> canvasY ] ]

\* the record appended to the observations when an injection completes
Observation(run, prev) ==
    [ sNo |-> Len(prev) + 1,
      concentration |-> run.selectedBaseline,
      amountAdded |-> run.selectedConcentration,
      concInBath |-> (run.selectedBaseline * run.selectedConcentration * 100)
                        \div ORGAN_BATH_VOLUME,
      response |-> "",
      percentResponse |-> "" ]

\* one frame of performInjection's animate, a frame gap after the previous
\* one, with the effects its state updates trigger
injectAnimate ==
    /\ ImagesLoaded
    /\ \E run \in pendingFrames, gap \in FrameGaps :
        /\ run.kind = "inject"
        /\ LET progress == Progress(run.elapsed + gap, run.duration)
               currentRotation == RotationAt(run, InjectEase(progress))
               rotatedPenTip == PenTip(run.leverImage, currentRotation)
               areas == run.imageData.drawableAreas
               isInArea(id) == Contains(AreaOf(run.imageData, id), rotatedPenTip)
               res(id) == InjectArea(run, AreaOf(run.imageData, id), rotatedPenTip,
                                     progress, canvasRefs[id], contextRefs[id],
                                     drawableAreaRefs, canvasWidths)
               drawn == [ id \in DOMAIN canvasRefs |->
                            IF isInArea(id) THEN res(id).canvas ELSE canvasRefs[id] ]
               divs == [ id \in DOMAIN drawableAreaRefs |->
                            IF isInArea(id) THEN res(id).div ELSE drawableAreaRefs[id] ]
               widths == [ id \in DOMAIN canvasWidths |->
                            IF isInArea(id) /\ res(id).grows THEN res(id).canvas.width
                            ELSE canvasWidths[id] ]
               grew == \E id \in DOMAIN canvasWidths : isInArea(id) /\ res(id).grows
               next == [ run EXCEPT
                           !.elapsed = run.elapsed + gap,
                           !.areaLastPos =
                               [ id \in DOMAIN @ |->
                                   IF isInArea(id) THEN res(id).pos ELSE @[id] ],
                           !.startScrollPositions =
                               [ id \in DOMAIN @ |->
                                   IF isInArea(id) THEN res(id).startScroll ELSE @[id] ] ]
               saved == SaveCanvases(run.imageData, drawn, canvasData)
               advances == Len(areas) > 0 /\ divs[areas[1].id] # None
           IN /\ currentLeverRotation' = currentRotation
              /\ imageData' = SetRotation(imageData, run.leverImage.id, currentRotation)
              /\ canvasWidths' = widths
              /\ lastPenPositionRef' =
                    [ id \in DOMAIN lastPenPositionRef |->
                        IF isInArea(id) THEN res(id).pos ELSE lastPenPositionRef[id] ]
              /\ IF progress < FP
                 THEN /\ pendingFrames' = (pendingFrames \ { run }) \cup { next }
                      /\ animationFrameRef' = run.rid
                      /\ canvasRefs' = IF grew
                                       THEN InitCanvases(activeTab, imageData', drawn,
                                                         canvasData, widths)
                                       ELSE drawn
                      /\ contextRefs' = IF grew
                                        THEN InitContexts(activeTab, drawn, contextRefs)
                                        ELSE contextRefs
                      /\ pendingRestores' = IF grew
                                            THEN InitRestores(activeTab, drawn, canvasData)
                                            ELSE {}
                      /\ drawableAreaRefs' = divs
                      /\ UNCHANGED << canvasData, experimentRunning, currentGraphX,
                                      observations, toast >>
                 ELSE /\ canvasData' = saved
                      /\ experimentRunning' = FALSE
                      /\ currentGraphX' =
                            IF advances
                            THEN ScrollOf(divs, areas[1].id, run.scale) + 20
                            ELSE currentGraphX
                      /\ observations' = Append(observations, Observation(run, observations))
                      /\ toast' = Some("Injection completed!")
                      /\ pendingFrames' = pendingFrames \ { run }
                      /\ canvasRefs' = InitCanvases(activeTab, imageData', drawn,
                                                    saved, widths)
                      /\ contextRefs' = InitContexts(activeTab, drawn, contextRefs)
                      /\ pendingRestores' = InitRestores(activeTab, drawn, saved)
                      /\ drawableAreaRefs' =
                            IF currentGraphX' # currentGraphX
                            THEN RestoreScroll(activeTab, imageData', divs,
                                               currentGraphX', widths, scale)
                            ELSE divs
                      /\ UNCHANGED animationFrameRef
    /\ UNCHANGED << sharedVars, activeTab, selectedBaseline,
                    selectedConcentration, autoScroll, mounted, runsStarted >>
    /\ UNCHANGED << editorVars, showVars, tableVars >>

(***************************************************************************)
(* Exp1Page: image loads, tabs, reset, leaving and reopening the page      *)
(***************************************************************************)
\* img.onload of a restore started by the canvas init/restore effect
restoreOnload ==
    /\ \E load \in pendingRestores :
        /\ canvasRefs' = [ canvasRefs EXCEPT ![load.area] = drawImage(@, load.data) ]
        /\ pendingRestores' = pendingRestores \ { load }
    /\ UNCHANGED << sharedVars, storeVars, mounted, toast, contextRefs,
                    drawableAreaRefs, animationFrameRef, lastPenPositionRef,
                    pendingFrames, runsStarted >>
    /\ UNCHANGED << editorVars, showVars, tableVars >>

\* the setup tab is rendered anew: React creates the elements, then the
\* scale, canvas init/restore and scroll-restore effects run
ShowSetup(cdata, widths, graphX) ==
    /\ scale' = ScaleOf(imageData.baseImageDimensions, wrapperWidth, 700)
    /\ canvasRefs' = InitCanvases("setup", imageData,
                                  [ id \in AreaIds(imageData) |-> NewCanvas ],
                                  cdata, widths)
    /\ contextRefs' = [ id \in AreaIds(imageData) |-> TRUE ]
    /\ drawableAreaRefs' = RestoreScroll("setup", imageData,
                                         [ id \in AreaIds(imageData) |-> NewDiv ],
                                         graphX, widths, scale')
    /\ pendingRestores' = InitRestores("setup", canvasRefs', cdata)

\* handleTabChange(newTab) and the render that follows
handleTabChange ==
    /\ mounted /\ ImagesLoaded
    /\ \E newTab \in Tabs :
        /\ activeTab' = newTab
        /\ canvasData' = IF activeTab = "setup"
                         THEN SaveCanvases(imageData, canvasRefs, canvasData)
                         ELSE canvasData
        /\ IF activeTab = "setup" /\ newTab = "setup"
           THEN /\ canvasRefs' = InitCanvases("setup", imageData, canvasRefs,
                                              canvasData', canvasWidths)
                /\ contextRefs' = InitContexts("setup", canvasRefs, contextRefs)
                /\ pendingRestores' = InitRestores("setup", canvasRefs, canvasData')
                /\ UNCHANGED << scale, drawableAreaRefs >>
           ELSE IF activeTab = "setup"
           THEN /\ drawableAreaRefs' = Detach(drawableAreaRefs)
                /\ UNCHANGED << scale, canvasRefs, contextRefs, pendingRestores >>
           ELSE IF newTab = "setup"
           THEN ShowSetup(canvasData, canvasWidths, currentGraphX)
           ELSE UNCHANGED << scale, canvasRefs, contextRefs, drawableAreaRefs,
                             pendingRestores >>
    /\ UNCHANGED << wrapperWidth, now, imageData, experimentRunning, selectedBaseline,
                    selectedConcentration, currentLeverRotation, observations,
                    autoScroll, currentGraphX, canvasWidths, mounted, toast,
                    animationFrameRef, lastPenPositionRef, pendingFrames, runsStarted >>
    /\ UNCHANGED << editorVars, showVars, tableVars >>

\* the store's resetExperiment: the experiment fields return to their
\* initial values, the scene geometry and the selections stay
resetStore ==
    /\ experimentRunning' = FALSE
    /\ currentLeverRotation' = 0
    /\ imageData' = [ imageData EXCEPT !.subImages =
                        [ i \in DOMAIN imageData.subImages |->
                            [ imageData.subImages[i] EXCEPT !.rotation = 0 ] ] ]
    /\ observations' = << >>
    /\ currentGraphX' = 0
    /\ canvasData' = [ id \in DOMAIN canvasData |-> None ]
    /\ canvasWidths' = [ id \in DOMAIN canvasWidths |-> 0 ]
    /\ UNCHANGED << activeTab, selectedBaseline, selectedConcentration, autoScroll >>

\* the Reset buttons of the setup and observation tabs
resetExperiment ==
    /\ mounted /\ ControlEnabled /\ ImagesLoaded
    /\ resetStore
    /\ toast' = Some("Experiment reset - ready for new trial")
    /\ canvasRefs' = InitCanvases(activeTab, imageData', canvasRefs,
                                  canvasData', canvasWidths')
    /\ contextRefs' = InitContexts(activeTab, canvasRefs, contextRefs)
    /\ pendingRestores' = {}
    /\ drawableAreaRefs' =
          IF currentGraphX' # currentGraphX
          THEN RestoreScroll(activeTab, imageData', drawableAreaRefs,
                             currentGraphX', canvasWidths', scale)
          ELSE drawableAreaRefs
    /\ UNCHANGED << sharedVars, mounted, animationFrameRef, lastPenPositionRef,
                    pendingFrames, runsStarted >>
    /\ UNCHANGED << editorVars, showVars, tableVars >>

\* the Home link: the page unmounts, the cleanup effect cancels the frame
\* animationFrameRef holds; the store outlives the page
unmount ==
    /\ mounted /\ ImagesLoaded
    /\ mounted' = FALSE
    /\ pendingFrames' = IF animationFrameRef # 0
                        THEN { run \in pendingFrames : run.rid # animationFrameRef }
                        ELSE pendingFrames
    /\ toast' = None
    /\ scale' = 100
    /\ canvasRefs' = [ id \in DOMAIN canvasRefs |-> None ]
    /\ contextRefs' = [ id \in DOMAIN contextRefs |-> FALSE ]
    /\ drawableAreaRefs' = [ id \in DOMAIN drawableAreaRefs |-> None ]
    /\ animationFrameRef' = 0
    /\ lastPenPositionRef' = [ id \in DOMAIN lastPenPositionRef |-> None ]
    /\ pendingRestores' = {}
    /\ UNCHANGED << wrapperWidth, now, storeVars, runsStarted >>
    /\ UNCHANGED << editorVars, showVars, tableVars >>

\* the page is opened again on the state the store kept
mount ==
    /\ ~mounted
    /\ mounted' = TRUE
    /\ IF activeTab = "setup"
       THEN ShowSetup(canvasData, canvasWidths, currentGraphX)
       ELSE UNCHANGED << scale, canvasRefs, contextRefs, drawableAreaRefs,
                         pendingRestores >>
    /\ UNCHANGED << wrapperWidth, now, storeVars, toast, animationFrameRef,
                    lastPenPositionRef, pendingFrames, runsStarted >>
    /\ UNCHANGED << editorVars, showVars, tableVars >>

(***************************************************************************)
(* Exp1Page: the observation table                                         *)
(***************************************************************************)
\* the texts a response field can hold ("" is the empty field)
ResponseTexts == { "", "20", "50" }

\* the values typed into the Maximum Response field; Number("") is 0
MaxResponses == { 0, 50 }

\* parseFloat(text): None is NaN
parseFloat(text) ==
    CASE text = "20" -> Some(20)
      [] text = "50" -> Some(50)
      [] OTHER -> None

\* ((responseValue / maxResponse) * 100).toFixed(2), for a response and a
\* maximum that are not negative
PercentOf(responseValue, max) ==
    LET h == (20000 * responseValue + max) \div (2 * max)
    IN IF max = 0
       THEN IF responseValue = 0 THEN "NaN" ELSE "Infinity"
       ELSE ToString(h \div 100) \o "." \o ToString((h \div 10) % 10)
              \o ToString(h % 10)

\* obs.response && !isNaN(parseFloat(obs.response))
HasResponse(obs) == obs.response # "" /\ parseFloat(obs.response) # None

\* updated.forEach(...): every record with a response gets its percentage
Recomputed(list, max) ==
    [ i \in DOMAIN list |->
        IF HasResponse(list[i])
        THEN [ list[i] EXCEPT
                 !.percentResponse = PercentOf(Val(parseFloat(list[i].response)), max) ]
        ELSE list[i] ]

\* a response field of the table
updateObservationResponse ==
    /\ mounted /\ activeTab = "observation"
    /\ \E index \in DOMAIN observations, response \in ResponseTexts :
         /\ response # observations[index].response
         /\ LET updated == [ observations EXCEPT ![index].response = response ]
            IN observations' =
                 IF response # "" /\ parseFloat(response) # None /\ maxResponse > 0
                 THEN Recomputed(updated, maxResponse)
                 ELSE updated
    /\ UNCHANGED << sharedVars, activeTab, imageData, experimentRunning,
                    selectedBaseline, selectedConcentration, currentLeverRotation,
                    autoScroll, currentGraphX, canvasData, canvasWidths, pageVars,
                    maxResponse >>
    /\ UNCHANGED << editorVars, showVars >>

\* the Maximum Response field: the store's setMaxResponse keeps the value
\* and derives the percentages of the whole list from it
setMaxResponse ==
    /\ mounted /\ activeTab = "observation"
    /\ \E value \in MaxResponses :
         /\ value # maxResponse
         /\ maxResponse' = value
         /\ observations' = Recomputed(observations, value)
    /\ UNCHANGED << sharedVars, activeTab, imageData, experimentRunning,
                    selectedBaseline, selectedConcentration, currentLeverRotation,
                    autoScroll, currentGraphX, canvasData, canvasWidths, pageVars >>
    /\ UNCHANGED << editorVars, showVars >>

\* the timer of the toast effect fires, 3000 ms after the toast was set: a
\* run replaces the toast it starts with before that
clearToast ==
    /\ mounted /\ toast # None /\ pendingFrames = {} /\ ImagesLoaded
    /\ toast' = None
    /\ UNCHANGED << sharedVars, storeVars, mounted, canvasRefs, contextRefs,
                    drawableAreaRefs, animationFrameRef, lastPenPositionRef,
                    pendingFrames, pendingRestores, runsStarted >>
    /\ UNCHANGED << editorVars, showVars, tableVars >>

Next ==
    \/ setSelectedBaseline
    \/ setSelectedConcentration
    \/ setAutoScroll
    \/ performWash
    \/ performInjection
    \/ washAnimate
    \/ injectAnimate
    \/ restoreOnload
    \/ handleTabChange
    \/ resetExperiment
    \/ unmount
    \/ mount
    \/ clearToast

Spec == Init /\ [][Next]_vars

\* the observation table.  Its two handlers write observations and
\* maxResponse only, and no other handler reads a response, a percentage or
\* maxResponse; they are explored with the handlers that fill the log
TableNext ==
    \/ performInjection
    \/ injectAnimate
    \/ restoreOnload
    \/ handleTabChange
    \/ updateObservationResponse
    \/ setMaxResponse

SpecTable == Init /\ [][TableNext]_vars

SpecNoContext == InitNoContext /\ [][Next]_vars

(***************************************************************************)
(* Showcase (show/page.tsx): documents                                     *)
(***************************************************************************)
\* number of pointer-move events of one exploration of the showcase
MaxShowMoves == 1

\* the variables of the other pages that the showcase does not have
notShowVars == << baseImageDimensions, subImages, drawableAreas, selectedArea,
                  dragState, creatingArea, areaStart, pendingLoads, keyPresses,
                  pointerMoves, wrapperWidth, now, activeTab, experimentRunning,
                  selectedBaseline, selectedConcentration, currentLeverRotation,
                  observations, autoScroll, currentGraphX, canvasData,
                  canvasWidths, mounted, toast, drawableAreaRefs,
                  animationFrameRef, lastPenPositionRef, pendingFrames,
                  pendingRestores, runsStarted, maxResponse >>

\* the texts the paste box can hold, by name; "" is the empty box
JsonTexts == { "", "noBaseImage", "subImagesNotAList", "sceneWithArea",
               "sceneWithoutPivot" }

\* a lever as a document writes it: pivot at its left end, pen tip at its
\* right end, no rotation field
DocLever(center, penTip) ==
    [ id |-> LeverId, x |-> 100, y |-> 100, width |-> 200, height |-> 20,
      rotation |-> None, zIndex |-> Some(2),
      centerX |-> IF center THEN Some(100) ELSE None,
      centerY |-> IF center THEN Some(110) ELSE None,
      penTipOffsetX |-> IF penTip THEN Some(200) ELSE None,
      penTipOffsetY |-> IF penTip THEN Some(10) ELSE None ]

\* a JSON array of images, or a value that is not an array
List(items) == [ isArray |-> TRUE, items |-> items ]

NotAList == [ isArray |-> FALSE, items |-> << >> ]

Document(base, images, areas) ==
    [ baseImage |-> base,
      baseImageDimensions |-> [ width |-> 400, height |-> 300 ],
      subImages |-> images,
      drawableAreas |-> areas ]

\* JSON.parse(text): ok is FALSE when it throws
JSONparse(text) ==
    CASE text = "noBaseImage" ->
            [ ok |-> TRUE,
              data |-> Document(None, List(<< DocLever(TRUE, TRUE) >>),
                                << Area(250, 200) >>) ]
      [] text = "subImagesNotAList" ->
            [ ok |-> TRUE,
              data |-> Document(Some("data:base"), NotAList, << Area(250, 200) >>) ]
      [] text = "sceneWithArea" ->
            [ ok |-> TRUE,
              data |-> Document(Some("data:base"), List(<< DocLever(TRUE, TRUE) >>),
                                << Area(250, 200) >>) ]
      [] text = "sceneShortScroll" ->
            [ ok |-> TRUE,
              data |-> Document(Some("data:base"), List(<< DocLever(TRUE, TRUE) >>),
                                << Area(250, 150) >>) ]
      [] text = "sceneWithoutPivot" ->
            [ ok |-> TRUE,
              data |-> Document(Some("data:base"), List(<< DocLever(FALSE, FALSE) >>),
                                << >>) ]
      [] OTHER -> [ ok |-> FALSE ]

\* !value for an optional string
Falsy(o) == o = None \/ Val(o) = ""

\* the validity check without its base image test
SubImagesNotAList(data) == ~data.subImages.isArray

\* !data.baseImage || !Array.isArray(data.subImages)
InvalidDocument(data) == Falsy(data.baseImage) \/ ~data.subImages.isArray

\* value || 0 for an optional number
OrZero(o) == IF o = None THEN 0 ELSE Val(o)

\* { ...data, subImages: data.subImages.map(...), drawableAreas: ... || [] }
processedData(data) ==
    [ baseImage |-> data.baseImage,
      baseImageDimensions |-> data.baseImageDimensions,
      subImages |->
          [ i \in DOMAIN data.subImages.items |->
              [ data.subImages.items[i] EXCEPT !.rotation = OrZero(@),
                                               !.zIndex = OrZero(@) ] ],
      drawableAreas |-> data.drawableAreas ]

\* the scene of useState: no base image, no images, no areas
EmptyScene ==
    [ baseImage |-> None, baseImageDimensions |-> None,
      subImages |-> << >>, drawableAreas |-> << >> ]

(***************************************************************************)
(* Showcase: elements, effects and geometry                                *)
(***************************************************************************)
\* the pointer positions of the exploration, relative to the container
ShowPointers == { << 290, 110 >>, << 290, 130 >> }

\* the position of the clicks that place a pivot or a pen tip
ShowClicks == { << 120, 110 >> }

\* the areas whose canvas is in the document: the preview is rendered only
\* with a base image
Rendered(data) == IF Falsy(data.baseImage) THEN {} ELSE AreaIds(data)

\* the ref callbacks after a render: an area that was not rendered before
\* gets a new canvas element, the others keep theirs; canvasRefs keeps the
\* elements of areas that are no longer rendered
RenderCanvases(data, prev, refs) ==
    [ id \in DOMAIN refs \cup Rendered(data) |->
        IF id \in Rendered(data) /\ id \notin Rendered(prev)
        THEN NewCanvas ELSE refs[id] ]

\* the canvas init effect: the elements it leaves
ShowInitCanvases(data, refs, ctxs) ==
    [ id \in DOMAIN refs |->
        IF id \in AreaIds(data) /\ id \notin DOMAIN ctxs
        THEN [ width |-> AreaOf(data, id).scrollWidth, strokes |-> {},
               grid |-> FALSE ]
        ELSE refs[id] ]

\* the canvas init effect: the contexts it records
ShowInitContexts(data, refs, ctxs) ==
    [ id \in DOMAIN ctxs \cup (AreaIds(data) \cap DOMAIN refs) |-> TRUE ]

\* Math.atan of a ratio in [0, 1], in radians
Atan(z) == (7854 * z) \div FP + (((2730 * z) \div FP) * (FP - z)) \div FP

\* Math.atan2(pointY - centerY, pointX - centerX) * (180 / Math.PI),
\* in centidegrees
calculateAngle(centerX, centerY, pointX, pointY) ==
    LET dx == pointX - centerX
        dy == pointY - centerY
        Degrees(r) == (r * 5730) \div FP
        acute == IF dx = 0 /\ dy = 0 THEN 0
                 ELSE IF Abs(dy) <= Abs(dx)
                      THEN Degrees(Atan((Abs(dy) * FP) \div Abs(dx)))
                      ELSE 9000 - Degrees(Atan((Abs(dx) * FP) \div Abs(dy)))
        upper == IF dx >= 0 THEN acute ELSE 18000 - acute
    IN IF dy >= 0 THEN upper ELSE 0 - upper

\* the pointer is over the box of an image, which is drawn rotated about
\* its pivot (about its middle when it has none)
PointerOverImage(img, cx, cy) ==
    LET hasCenterPoint == img.centerX # None /\ img.centerY # None
        originX == IF hasCenterPoint THEN Val(img.centerX)
                   ELSE img.x + img.width \div 2
        originY == IF hasCenterPoint THEN Val(img.centerY)
                   ELSE img.y + img.height \div 2
        p == rotatePoint(cx, cy, originX, originY, 0 - img.rotation)
    IN PointerOver(img, p.x, p.y)

\* contextRefs.current[areaId] of drawOnCanvas, and what it paints: a
\* segment from the last drawn point, a dot when there is none
drawOnCanvas(canvas, lastPos, x, y) ==
    IF lastPos # None THEN stroke(canvas, lastPos.x, lastPos.y, x, y)
    ELSE stroke(canvas, x, y, x, y)

\* lastDrawnPositions.current[areaId]
LastDrawn(last, id) == IF id \in DOMAIN last THEN last[id] ELSE None

\* areaScrollPositions[area.id] || 0
ScrollOffset(positions, id) == IF id \in DOMAIN positions THEN positions[id] ELSE 0

\* an update that leaves the document as it is
KeepImageFields(data, id, field, value) == data

\* prev.subImages.map(img => img.id === id ? { ...img, [field]: value } : img)
SetImageField(data, id, field, value) ==
    LET images == data.subImages
    IN [ data EXCEPT !.subImages =
           [ i \in DOMAIN images |->
               IF images[i].id = id THEN [ images[i] EXCEPT ![field] = value ]
               ELSE images[i] ] ]

\* the state of useState and useRef when the showcase opens
ShowInit ==
    /\ EditorIdle
    /\ ShowIdle
    /\ wrapperWidth = 1000
    /\ now = 0
    /\ scale = 100
    /\ imageData = EmptyScene
    /\ canvasRefs = << >>
    /\ contextRefs = << >>
    /\ activeTab = "setup"
    /\ experimentRunning = FALSE
    /\ selectedBaseline = 20
    /\ selectedConcentration = 5
    /\ currentLeverRotation = 0
    /\ observations = << >>
    /\ autoScroll = TRUE
    /\ currentGraphX = 0
    /\ canvasData = << >>
    /\ canvasWidths = << >>
    /\ mounted = FALSE
    /\ toast = None
    /\ drawableAreaRefs = << >>
    /\ animationFrameRef = 0
    /\ lastPenPositionRef = << >>
    /\ pendingFrames = {}
    /\ pendingRestores = {}
    /\ runsStarted = 0
    /\ maxResponse = 100

(***************************************************************************)
(* Showcase: operations                                                    *)
(***************************************************************************)
\* the paste box: onChange={(e) => setJsonInput(e.target.value)}
setJsonInput ==
    /\ \E text \in JsonTexts : text # jsonInput /\ jsonInput' = text
    /\ UNCHANGED << imageData, scale, selectedImage, settingCenter, canvasRefs,
                    contextRefs, error, settingPenTip, areaScrollPositions,
                    rotatingImage, isDrawingMode, lastDrawnPositions,
                    rotationStartAngle, rotationStartMouseAngle, showMoves >>
    /\ UNCHANGED notShowVars

\* the Load from JSON button, followed by the render, the scale effect and
\* the canvas init effect
handleJSONInput ==
    /\ LET parsed == JSONparse(jsonInput)
       IN IF ~parsed.ok \/ InvalidDocument(parsed.data)
          THEN /\ error' = "Invalid JSON format. Please check your input."
               /\ UNCHANGED << imageData, scale, areaScrollPositions, canvasRefs,
                               contextRefs, lastDrawnPositions >>
          ELSE LET data == processedData(parsed.data)
                   elements == RenderCanvases(data, imageData, canvasRefs)
               IN /\ error' = ""
                  /\ imageData' = data
                  /\ scale' = IF data.baseImageDimensions # None
                              THEN ScaleOf(data.baseImageDimensions, wrapperWidth, 600)
                              ELSE scale
                  /\ areaScrollPositions' = [ id \in AreaIds(data) |-> 0 ]
                  /\ canvasRefs' = ShowInitCanvases(data, elements, << >>)
                  /\ contextRefs' = ShowInitContexts(data, elements, << >>)
                  /\ lastDrawnPositions' = << >>
    /\ UNCHANGED << jsonInput, selectedImage, settingCenter, settingPenTip,
                    rotatingImage, isDrawingMode, rotationStartAngle,
                    rotationStartMouseAngle, showMoves >>
    /\ UNCHANGED notShowVars

\* the Clear All button, rendered while the scene has images
clearData ==
    /\ Len(imageData.subImages) > 0
    /\ imageData' = EmptyScene
    /\ jsonInput' = ""
    /\ error' = ""
    /\ selectedImage' = None
    /\ areaScrollPositions' = << >>
    /\ contextRefs' = << >>
    /\ lastDrawnPositions' = << >>
    /\ canvasRefs' = RenderCanvases(EmptyScene, imageData, canvasRefs)
    /\ UNCHANGED << scale, settingCenter, settingPenTip, rotatingImage,
                    isDrawingMode, rotationStartAngle, rotationStartMouseAngle,
                    showMoves >>
    /\ UNCHANGED notShowVars

\* onScroll of an area: the user scrolls it to one of its two ends
handleAreaScroll ==
    /\ \E id \in Rendered(imageData) :
         \E v \in { 0, AreaOf(imageData, id).scrollWidth - AreaOf(imageData, id).width } :
            /\ v >= 0
            /\ v # ScrollOffset(areaScrollPositions, id)
            /\ areaScrollPositions' =
                  [ i \in DOMAIN areaScrollPositions \cup { id } |->
                      IF i = id THEN v ELSE areaScrollPositions[i] ]
    /\ UNCHANGED << imageData, scale, selectedImage, settingCenter, canvasRefs,
                    contextRefs, jsonInput, error, settingPenTip, rotatingImage,
                    isDrawingMode, lastDrawnPositions, rotationStartAngle,
                    rotationStartMouseAngle, showMoves >>
    /\ UNCHANGED notShowVars

\* the Drawing Mode button: setIsDrawingMode(!isDrawingMode)
setIsDrawingMode ==
    /\ isDrawingMode' = ~isDrawingMode
    /\ UNCHANGED << imageData, scale, selectedImage, settingCenter, canvasRefs,
                    contextRefs, jsonInput, error, settingPenTip,
                    areaScrollPositions, rotatingImage, lastDrawnPositions,
                    rotationStartAngle, rotationStartMouseAngle, showMoves >>
    /\ UNCHANGED notShowVars

\* a row of the Loaded Items list: setSelectedImage(img.id)
setSelectedImage ==
    /\ \E i \in DOMAIN imageData.subImages :
          /\ selectedImage # Some(imageData.subImages[i].id)
          /\ selectedImage' = Some(imageData.subImages[i].id)
    /\ UNCHANGED << imageData, scale, settingCenter, canvasRefs, contextRefs,
                    jsonInput, error, settingPenTip, areaScrollPositions,
                    rotatingImage, isDrawingMode, lastDrawnPositions,
                    rotationStartAngle, rotationStartMouseAngle, showMoves >>
    /\ UNCHANGED notShowVars

\* selectedImg: the selected image, when the scene has it
HasSelectedImg ==
    /\ selectedImage # None
    /\ FindIndex(imageData.subImages, Val(selectedImage)) # 0

\* the Set Pivot / Cancel button of the Image Controls panel
toggleSettingCenter ==
    /\ HasSelectedImg
    /\ settingCenter' = ~settingCenter
    /\ settingPenTip' = FALSE
    /\ UNCHANGED << imageData, scale, selectedImage, canvasRefs, contextRefs,
                    jsonInput, error, areaScrollPositions, rotatingImage,
                    isDrawingMode, lastDrawnPositions, rotationStartAngle,
                    rotationStartMouseAngle, showMoves >>
    /\ UNCHANGED notShowVars

\* the Set Pen Tip / Cancel button of the Image Controls panel
toggleSettingPenTip ==
    /\ HasSelectedImg
    /\ settingPenTip' = ~settingPenTip
    /\ settingCenter' = FALSE
    /\ UNCHANGED << imageData, scale, selectedImage, canvasRefs, contextRefs,
                    jsonInput, error, areaScrollPositions, rotatingImage,
                    isDrawingMode, lastDrawnPositions, rotationStartAngle,
                    rotationStartMouseAngle, showMoves >>
    /\ UNCHANGED notShowVars

\* a click on the container while a placement is armed
handleCanvasClick ==
    /\ settingCenter \/ settingPenTip
    /\ ~Falsy(imageData.baseImage)
    /\ \E p \in ShowClicks :
         LET clickX == ToCanonical(p[1], scale)
             clickY == ToCanonical(p[2], scale)
             at == IF selectedImage = None THEN 0
                   ELSE FindIndex(imageData.subImages, Val(selectedImage))
         IN IF settingCenter /\ selectedImage # None
            THEN /\ imageData' =
                       SetImageField(SetImageField(imageData, Val(selectedImage),
                                                   "centerX", Some(clickX)),
                                     Val(selectedImage), "centerY", Some(clickY))
                 /\ settingCenter' = FALSE
                 /\ UNCHANGED settingPenTip
            ELSE IF settingPenTip /\ selectedImage # None
            THEN /\ imageData' =
                       IF at # 0
                       THEN SetImageField(
                              SetImageField(imageData, Val(selectedImage),
                                  "penTipOffsetX",
                                  Some(clickX - imageData.subImages[at].x)),
                              Val(selectedImage), "penTipOffsetY",
                              Some(clickY - imageData.subImages[at].y))
                       ELSE imageData
                 /\ settingPenTip' = FALSE
                 /\ UNCHANGED settingCenter
            ELSE UNCHANGED << imageData, settingCenter, settingPenTip >>
    /\ UNCHANGED << scale, selectedImage, canvasRefs, contextRefs, jsonInput,
                    error, areaScrollPositions, rotatingImage, isDrawingMode,
                    lastDrawnPositions, rotationStartAngle,
                    rotationStartMouseAngle, showMoves >>
    /\ UNCHANGED notShowVars

\* a mouse-down that starts the rotation whether or not the image has a
\* pivot (a missing coordinate counts as 0)
startRotationWithoutCheck ==
    /\ ~(settingCenter \/ settingPenTip)
    /\ ~Falsy(imageData.baseImage)
    /\ \E i \in DOMAIN imageData.subImages : \E p \in ShowPointers :
         LET img == imageData.subImages[i]
             mouseX == ToCanonical(p[1], scale)
             mouseY == ToCanonical(p[2], scale)
         IN /\ PointerOverImage(img, mouseX, mouseY)
            /\ selectedImage' = Some(img.id)
            /\ rotatingImage' = Some(img.id)
            /\ rotationStartAngle' = img.rotation
            /\ rotationStartMouseAngle' =
                  calculateAngle(OrZero(img.centerX), OrZero(img.centerY),
                                 mouseX, mouseY)
            /\ lastDrawnPositions' =
                  IF isDrawingMode THEN << >> ELSE lastDrawnPositions
    /\ UNCHANGED << imageData, scale, settingCenter, canvasRefs, contextRefs,
                    jsonInput, error, settingPenTip, areaScrollPositions,
                    isDrawingMode, showMoves >>
    /\ UNCHANGED notShowVars

\* mouse-down on an image while no placement is armed
handleImageMouseDown ==
    /\ ~(settingCenter \/ settingPenTip)
    /\ ~Falsy(imageData.baseImage)
    /\ \E i \in DOMAIN imageData.subImages : \E p \in ShowPointers :
         LET img == imageData.subImages[i]
             mouseX == ToCanonical(p[1], scale)
             mouseY == ToCanonical(p[2], scale)
         IN /\ PointerOverImage(img, mouseX, mouseY)
            /\ IF img.centerX = None \/ img.centerY = None
               THEN UNCHANGED << selectedImage, rotatingImage, rotationStartAngle,
                                 rotationStartMouseAngle, lastDrawnPositions >>
               ELSE /\ selectedImage' = Some(img.id)
                    /\ rotatingImage' = Some(img.id)
                    /\ rotationStartAngle' = img.rotation
                    /\ rotationStartMouseAngle' =
                          calculateAngle(Val(img.centerX), Val(img.centerY),
                                         mouseX, mouseY)
                    /\ lastDrawnPositions' =
                          IF isDrawingMode THEN << >> ELSE lastDrawnPositions
    /\ UNCHANGED << imageData, scale, settingCenter, canvasRefs, contextRefs,
                    jsonInput, error, settingPenTip, areaScrollPositions,
                    isDrawingMode, showMoves >>
    /\ UNCHANGED notShowVars

\* the areas a pointer move draws on: those that contain the rotated pen
\* tip and have a drawing context
DrawnAreas(data, img, newRotation, ctxs, refs) ==
    IF img.penTipOffsetX = None \/ img.penTipOffsetY = None THEN {}
    ELSE { id \in AreaIds(data) \cap DOMAIN ctxs \cap DOMAIN refs :
             Contains(AreaOf(data, id), PenTip(img, newRotation)) }

\* a pointer move over the container during a rotation: the container's
\* onMouseMove and the window listener of the effect both run handleMouseMove
Showcase_handleMouseMove ==
    /\ rotatingImage # None
    /\ ~Falsy(imageData.baseImage)
    /\ showMoves < MaxShowMoves
    /\ FindIndex(imageData.subImages, Val(rotatingImage)) # 0
    /\ \E p \in ShowPointers :
         LET img == imageData.subImages[FindIndex(imageData.subImages,
                                                  Val(rotatingImage))]
             mouseX == ToCanonical(p[1], scale)
             mouseY == ToCanonical(p[2], scale)
         IN /\ img.centerX # None /\ img.centerY # None
            /\ LET currentMouseAngle ==
                       calculateAngle(Val(img.centerX), Val(img.centerY),
                                      mouseX, mouseY)
                   newRotation == rotationStartAngle
                                    + (currentMouseAngle - rotationStartMouseAngle)
                   drawn == IF isDrawingMode
                            THEN DrawnAreas(imageData, img, newRotation,
                                            contextRefs, canvasRefs)
                            ELSE {}
                   pen == PenTip(img, newRotation)
                   localX(id) == pen.x - AreaOf(imageData, id).x
                                   + ScrollOffset(areaScrollPositions, id)
                   localY(id) == pen.y - AreaOf(imageData, id).y
               IN /\ imageData' = SetImageField(imageData, Val(rotatingImage),
                                                "rotation", newRotation)
                  /\ canvasRefs' =
                        [ id \in DOMAIN canvasRefs |->
                            IF id \in drawn
                            THEN stroke(drawOnCanvas(canvasRefs[id],
                                            LastDrawn(lastDrawnPositions, id),
                                            localX(id), localY(id)),
                                        localX(id), localY(id),
                                        localX(id), localY(id))
                            ELSE canvasRefs[id] ]
                  /\ lastDrawnPositions' =
                        [ id \in DOMAIN lastDrawnPositions \cup drawn |->
                            IF id \in drawn
                            THEN [ x |-> localX(id), y |-> localY(id) ]
                            ELSE lastDrawnPositions[id] ]
    /\ showMoves' = showMoves + 1
    /\ UNCHANGED << scale, selectedImage, settingCenter, contextRefs, jsonInput,
                    error, settingPenTip, areaScrollPositions, rotatingImage,
                    isDrawingMode, rotationStartAngle, rotationStartMouseAngle >>
    /\ UNCHANGED notShowVars

\* the button is released during a rotation
Showcase_handleMouseUp ==
    /\ rotatingImage # None
    /\ rotatingImage' = None
    /\ lastDrawnPositions' = << >>
    /\ UNCHANGED << imageData, scale, selectedImage, settingCenter, canvasRefs,
                    contextRefs, jsonInput, error, settingPenTip,
                    areaScrollPositions, isDrawingMode, rotationStartAngle,
                    rotationStartMouseAngle, showMoves >>
    /\ UNCHANGED notShowVars

\* the Clear All Drawings button: clearDrawings()
clearDrawings ==
    /\ canvasRefs' =
          [ id \in DOMAIN canvasRefs |->
              IF id \in AreaIds(imageData) /\ id \in DOMAIN contextRefs
              THEN [ canvasRefs[id] EXCEPT !.strokes =
                       { seg \in @ :
                           \/ seg[1] > AreaOf(imageData, id).scrollWidth
                           \/ seg[3] > AreaOf(imageData, id).scrollWidth } ]
              ELSE canvasRefs[id] ]
    /\ lastDrawnPositions' = << >>
    /\ UNCHANGED << imageData, scale, selectedImage, settingCenter, contextRefs,
                    jsonInput, error, settingPenTip, areaScrollPositions,
                    rotatingImage, isDrawingMode, rotationStartAngle,
                    rotationStartMouseAngle, showMoves >>
    /\ UNCHANGED notShowVars

ShowNext ==
    \/ setJsonInput
    \/ handleJSONInput
    \/ clearData
    \/ handleAreaScroll
    \/ setIsDrawingMode
    \/ setSelectedImage
    \/ toggleSettingCenter
    \/ toggleSettingPenTip
    \/ handleCanvasClick
    \/ handleImageMouseDown
    \/ Showcase_handleMouseMove
    \/ Showcase_handleMouseUp
    \/ clearDrawings

SpecShow == ShowInit /\ [][ShowNext]_vars

(***************************************************************************)
(* Experiment (exp1/page.tsx:1075-2169): the experiment page that keeps    *)
(* its state in the component.  It has imageData, jsonInput, error, scale, *)
(* experimentRunning, selectedBaseline, selectedConcentration,             *)
(* currentLeverRotation, observations, autoScroll, currentGraphX, toast,   *)
(* canvasRefs, contextRefs, drawableAreaRefs and animationFrameRef; here   *)
(* canvasRefs, contextRefs and drawableAreaRefs are keyed by the areas     *)
(* that have an entry, and selectedConcentration is a stock concentration  *)
(* in hundredths of a microgram per millilitre.                            *)
(***************************************************************************)
organBathVolume == 20

\* EC50 = 0.008, in millionths
HillEC50 == 8000

graphWidth == 100

\* the variables of the other pages that this page does not have
notExperimentVars == << baseImageDimensions, subImages, drawableAreas,
                        selectedImage, selectedArea, dragState, settingCenter,
                        creatingArea, areaStart, pendingLoads, keyPresses,
                        pointerMoves, wrapperWidth, now, activeTab, canvasData,
                        canvasWidths, mounted, lastPenPositionRef,
                        pendingRestores, settingPenTip, areaScrollPositions,
                        rotatingImage, isDrawingMode, lastDrawnPositions,
                        rotationStartAngle, rotationStartMouseAngle, showMoves,
                        maxResponse >>

\* the texts the paste box of this page can hold
ExperimentTexts == { "noBaseImage", "sceneShortScroll", "sceneWithoutPivot" }

\* the ref callbacks of the scroll containers after a render
RenderDivs(data, prev, refs) ==
    [ id \in DOMAIN refs \cup Rendered(data) |->
        IF id \in Rendered(data) /\ id \notin Rendered(prev)
        THEN NewDiv ELSE refs[id] ]

\* the canvas init effect: canvas.width = area.scrollWidth * 3 clears the
\* bitmap, then the grid is painted
Experiment_InitCanvases(data, refs, ctxs) ==
    [ id \in DOMAIN refs |->
        IF id \in AreaIds(data) /\ id \notin DOMAIN ctxs
        THEN [ width |-> AreaOf(data, id).scrollWidth * 3, strokes |-> {},
               grid |-> TRUE ]
        ELSE refs[id] ]

\* element.scrollLeft = v on a scroll container: the browser keeps v within
\* the styled width of the canvas less the width of the container
Experiment_SetScrollLeft(div, v, area, sc) ==
    [ div EXCEPT !.scrollLeft =
        Max(0, Min(v, Max(0, (area.scrollWidth * sc) \div 100
                              - (area.width * sc) \div 100))) ]

\* calculateResponse(baseline, concentration): the response in hundredths
\* of a percent
Experiment_calculateResponse(baseline, concentration) ==
    LET amountAdded == 1
        concInBath == (concentration * amountAdded * 10000) \div organBathVolume
        numerator == Pow15(concInBath)
        denominator == Pow15(HillEC50) + numerator
    IN (1000 * numerator) \div (denominator \div 10)

\* the values the animate closure of a run captures when the run starts
Experiment_Run(kind, duration, targetRotation) ==
    [ rid |-> runsStarted + 1,
      kind |-> kind,
      duration |-> duration,
      elapsed |-> 0,
      startRotation |-> currentLeverRotation,
      targetRotation |-> targetRotation,
      imageData |-> imageData,
      leverImage |-> imageData.subImages[FindIndex(imageData.subImages, LeverId)],
      scale |-> scale,
      autoScroll |-> autoScroll,
      selectedConcentration |-> selectedConcentration,
      startGraphX |-> currentGraphX,
      areaLastPos |-> [ id \in AreaIds(imageData) |-> None ] ]

Experiment_setJsonInput ==
    /\ \E text \in ExperimentTexts : text # jsonInput /\ jsonInput' = text
    /\ UNCHANGED << imageData, error, scale, experimentRunning, selectedBaseline,
                    selectedConcentration, currentLeverRotation, observations,
                    autoScroll, currentGraphX, toast, canvasRefs, contextRefs,
                    drawableAreaRefs, animationFrameRef, pendingFrames,
                    runsStarted >>
    /\ UNCHANGED notExperimentVars

\* what a loaded document writes, with the render, the scale effect and the
\* canvas init effect that follow
Experiment_Load(parsed) ==
    LET data == processedData(parsed)
        elements == RenderCanvases(data, imageData, canvasRefs)
    IN /\ imageData' = data
       /\ currentGraphX' = 0
       /\ observations' = << >>
       /\ scale' = IF data.baseImageDimensions # None
                   THEN ScaleOf(data.baseImageDimensions, wrapperWidth, 700)
                   ELSE scale
       /\ canvasRefs' = Experiment_InitCanvases(data, elements, << >>)
       /\ contextRefs' = ShowInitContexts(data, elements, << >>)
       /\ drawableAreaRefs' = RenderDivs(data, imageData, drawableAreaRefs)

\* the Load Data button
Experiment_handleJSONInput ==
    /\ LET parsed == JSONparse(jsonInput)
       IN IF ~parsed.ok \/ InvalidDocument(parsed.data)
          THEN /\ error' = "Invalid JSON format. Please check your input."
               /\ UNCHANGED << imageData, currentGraphX, observations, scale,
                               canvasRefs, contextRefs, drawableAreaRefs >>
          ELSE /\ error' = ""
               /\ Experiment_Load(parsed.data)
    /\ UNCHANGED << jsonInput, experimentRunning, selectedBaseline,
                    selectedConcentration, currentLeverRotation, autoScroll,
                    toast, animationFrameRef, pendingFrames, runsStarted >>
    /\ UNCHANGED notExperimentVars

\* the file input: the reader's onload for the chosen file
Experiment_handleFileUpload ==
    /\ \E text \in ExperimentTexts :
         LET parsed == JSONparse(text)
         IN IF ~parsed.ok \/ InvalidDocument(parsed.data)
            THEN /\ error' = "Invalid JSON file. Please check the file format."
                 /\ UNCHANGED << imageData, jsonInput, currentGraphX, observations,
                                 scale, canvasRefs, contextRefs, drawableAreaRefs >>
            ELSE /\ error' = ""
                 /\ jsonInput' = text
                 /\ Experiment_Load(parsed.data)
    /\ UNCHANGED << experimentRunning, selectedBaseline, selectedConcentration,
                    currentLeverRotation, autoScroll, toast, animationFrameRef,
                    pendingFrames, runsStarted >>
    /\ UNCHANGED notExperimentVars

Experiment_setSelectedBaseline ==
    /\ ~experimentRunning
    /\ \E b \in availableBaselines : b # selectedBaseline /\ selectedBaseline' = b
    /\ UNCHANGED << imageData, jsonInput, error, scale, experimentRunning,
                    selectedConcentration, currentLeverRotation, observations,
                    autoScroll, currentGraphX, toast, canvasRefs, contextRefs,
                    drawableAreaRefs, animationFrameRef, pendingFrames,
                    runsStarted >>
    /\ UNCHANGED notExperimentVars

Experiment_setSelectedConcentration ==
    /\ ~experimentRunning
    /\ \E c \in availableConcentrations :
         c # selectedConcentration /\ selectedConcentration' = c
    /\ UNCHANGED << imageData, jsonInput, error, scale, experimentRunning,
                    selectedBaseline, currentLeverRotation, observations,
                    autoScroll, currentGraphX, toast, canvasRefs, contextRefs,
                    drawableAreaRefs, animationFrameRef, pendingFrames,
                    runsStarted >>
    /\ UNCHANGED notExperimentVars

Experiment_setAutoScroll ==
    /\ autoScroll' = ~autoScroll
    /\ UNCHANGED << imageData, jsonInput, error, scale, experimentRunning,
                    selectedBaseline, selectedConcentration, currentLeverRotation,
                    observations, currentGraphX, toast, canvasRefs, contextRefs,
                    drawableAreaRefs, animationFrameRef, pendingFrames,
                    runsStarted >>
    /\ UNCHANGED notExperimentVars

\* what starting a run writes
Experiment_StartRun(run, message) ==
    /\ runsStarted < MaxRuns
    /\ toast' = Some(message)
    /\ experimentRunning' = TRUE
    /\ pendingFrames' = pendingFrames \cup { run }
    /\ animationFrameRef' = run.rid
    /\ runsStarted' = runsStarted + 1
    /\ UNCHANGED << imageData, jsonInput, error, scale, selectedBaseline,
                    selectedConcentration, currentLeverRotation, observations,
                    autoScroll, currentGraphX, canvasRefs, contextRefs,
                    drawableAreaRefs >>

\* what a refused action writes: the error toast
Experiment_Refuse(message) ==
    /\ toast' = message
    /\ UNCHANGED << imageData, jsonInput, error, scale, experimentRunning,
                    selectedBaseline, selectedConcentration, currentLeverRotation,
                    observations, autoScroll, currentGraphX, canvasRefs,
                    contextRefs, drawableAreaRefs, animationFrameRef,
                    pendingFrames, runsStarted >>

\* the Wash button
Experiment_performWash ==
    /\ ~experimentRunning /\ imageData.baseImage # None
    /\ IF Refusal(imageData) # None
       THEN Experiment_Refuse(Refusal(imageData))
       ELSE Experiment_StartRun(Experiment_Run("wash", WashDuration, 0),
                                "Washing organ bath...")
    /\ UNCHANGED notExperimentVars

\* the Inject button
Experiment_performInjection ==
    /\ ~experimentRunning /\ imageData.baseImage # None
    /\ IF Refusal(imageData) # None
       THEN Experiment_Refuse(Refusal(imageData))
       ELSE Experiment_StartRun(
               Experiment_Run("inject", InjectDuration,
                   0 - (Experiment_calculateResponse(selectedBaseline,
                                                     selectedConcentration)
                          * MAX_ROTATION_ANGLE) \div 100),
               "Injecting ACh...")
    /\ UNCHANGED notExperimentVars

\* one frame of performWash's animate, a frame gap after the previous one
Experiment_washAnimate ==
    /\ \E run \in pendingFrames, gap \in FrameGaps :
        /\ run.kind = "wash"
        /\ LET progress == Progress(run.elapsed + gap, run.duration)
               currentRotation == RotationAt(run, WashEase(progress))
               startPenTip == PenTip(run.leverImage, run.startRotation)
               baselinePenTip == PenTip(run.leverImage, 0)
               draws(id) == /\ id \in AreaIds(run.imageData)
                            /\ Contains(AreaOf(run.imageData, id), startPenTip)
                            /\ id \in DOMAIN contextRefs
               drawn == [ id \in DOMAIN canvasRefs |->
                            IF draws(id)
                            THEN LET area == AreaOf(run.imageData, id)
                                 IN stroke(canvasRefs[id],
                                           run.startGraphX, startPenTip.y - area.y,
                                           run.startGraphX, baselinePenTip.y - area.y)
                            ELSE canvasRefs[id] ]
           IN /\ currentLeverRotation' = currentRotation
              /\ imageData' = SetRotation(imageData, run.leverImage.id, currentRotation)
              /\ IF progress >= FP
                 THEN /\ canvasRefs' = drawn
                      /\ experimentRunning' = FALSE
                      /\ currentGraphX' = run.startGraphX + 15
                      /\ toast' = Some("Wash completed")
                      /\ pendingFrames' = pendingFrames \ { run }
                      /\ UNCHANGED animationFrameRef
                 ELSE /\ animationFrameRef' = run.rid
                      /\ pendingFrames' = (pendingFrames \ { run })
                            \cup { [ run EXCEPT !.elapsed = run.elapsed + gap ] }
                      /\ UNCHANGED << canvasRefs, experimentRunning, currentGraphX,
                                      toast >>
    /\ UNCHANGED << jsonInput, error, scale, selectedBaseline,
                    selectedConcentration, observations, autoScroll, contextRefs,
                    drawableAreaRefs, runsStarted >>
    /\ UNCHANGED notExperimentVars

\* expandCanvasIfNeeded(areaId, requiredWidth): the canvas is doubled and
\* the content read by getImageData is put back at the origin
Experiment_expandCanvasIfNeeded(id, requiredWidth, refs, ctxs) ==
    IF id \in DOMAIN refs /\ id \in DOMAIN ctxs
       /\ requiredWidth > refs[id].width - 200
    THEN [ refs[id] EXCEPT !.width = refs[id].width * 2 ]
    ELSE IF id \in DOMAIN refs THEN refs[id] ELSE None

\* what one frame of an injection does to one area the pen tip is in
Experiment_InjectArea(run, area, pen, progress, canvas, ctxs, divs) ==
    LET id == area.id
        currentXOffset == run.startGraphX + (progress * graphWidth) \div FP
        targetScrollLeft == currentXOffset - area.width \div 2
        maxScrollLeft ==
            (IF canvas # None THEN canvas.width ELSE area.scrollWidth * 3)
              - area.width
        clampedScroll == Max(0, Min(targetScrollLeft, maxScrollLeft))
        canvasX == currentXOffset
        canvasY == pen.y - area.y
        lastPos == run.areaLastPos[id]
    IN [ canvas |-> IF lastPos # None /\ id \in DOMAIN ctxs
                    THEN stroke(canvas, lastPos.x, lastPos.y, canvasX, canvasY)
                    ELSE canvas,
         div |-> IF run.autoScroll /\ id \in DOMAIN divs
                 THEN Some(Experiment_SetScrollLeft(divs[id],
                              (clampedScroll * run.scale) \div 100, area, scale))
                 ELSE None,
         pos |-> [ x |-> canvasX, y |-> canvasY ] ]

\* a record numbered by the runs started, washes included
Experiment_ObservationNumberedByRun(run, prev) ==
    [ sNo |-> run.rid,
      concentration |-> run.selectedConcentration,
      amountAdded |-> 100,
      concInBath |-> (run.selectedConcentration * 100) \div organBathVolume,
      response |-> "",
      percentResponse |-> "" ]

\* the record appended to the observations when an injection completes:
\* concentration is the stock concentration (in hundredths), amountAdded
\* the constant 1 ml (in hundredths of a millilitre), concInBath their
\* product over the bath volume (in ten-thousandths)
Experiment_Observation(run, prev) ==
    [ sNo |-> Len(prev) + 1,
      concentration |-> run.selectedConcentration,
      amountAdded |-> 100,
      concInBath |-> (run.selectedConcentration * 100) \div organBathVolume,
      response |-> "",
      percentResponse |-> "" ]

\* one frame of performInjection's animate, a frame gap after the previous
\* one
Experiment_injectAnimate ==
    /\ \E run \in pendingFrames, gap \in FrameGaps :
        /\ run.kind = "inject"
        /\ LET progress == Progress(run.elapsed + gap, run.duration)
               currentRotation == RotationAt(run, InjectEase(progress))
               rotatedPenTip == PenTip(run.leverImage, currentRotation)
               currentXOffset == run.startGraphX + (progress * graphWidth) \div FP
               ids == AreaIds(run.imageData)
               expanded == [ id \in DOMAIN canvasRefs |->
                               IF id \in ids
                               THEN Experiment_expandCanvasIfNeeded(
                                        id, currentXOffset + 300, canvasRefs,
                                        contextRefs)
                               ELSE canvasRefs[id] ]
               isInArea(id) == Contains(AreaOf(run.imageData, id), rotatedPenTip)
               res(id) == Experiment_InjectArea(
                              run, AreaOf(run.imageData, id), rotatedPenTip,
                              progress,
                              IF id \in DOMAIN expanded THEN expanded[id] ELSE None,
                              contextRefs, drawableAreaRefs)
               next == [ run EXCEPT
                           !.elapsed = run.elapsed + gap,
                           !.areaLastPos =
                               [ id \in DOMAIN @ |->
                                   IF isInArea(id) THEN res(id).pos ELSE @[id] ] ]
           IN /\ currentLeverRotation' = currentRotation
              /\ imageData' = SetRotation(imageData, run.leverImage.id, currentRotation)
              /\ canvasRefs' =
                    [ id \in DOMAIN canvasRefs |->
                        IF id \in ids /\ isInArea(id) THEN res(id).canvas
                        ELSE expanded[id] ]
              /\ drawableAreaRefs' =
                    [ id \in DOMAIN drawableAreaRefs |->
                        IF id \in ids /\ isInArea(id) /\ res(id).div # None
                        THEN Val(res(id).div) ELSE drawableAreaRefs[id] ]
              /\ IF progress < FP
                 THEN /\ pendingFrames' = (pendingFrames \ { run }) \cup { next }
                      /\ animationFrameRef' = run.rid
                      /\ UNCHANGED << experimentRunning, currentGraphX,
                                      observations, toast >>
                 ELSE /\ experimentRunning' = FALSE
                      /\ currentGraphX' = run.startGraphX + graphWidth
                      /\ observations' =
                            Append(observations,
                                   Experiment_Observation(run, observations))
                      /\ toast' = Some("Injection completed!")
                      /\ pendingFrames' = pendingFrames \ { run }
                      /\ UNCHANGED animationFrameRef
    /\ UNCHANGED << jsonInput, error, scale, selectedBaseline,
                    selectedConcentration, autoScroll, contextRefs, runsStarted >>
    /\ UNCHANGED notExperimentVars

\* ctx.fillRect(0, 0, w, height): what is left of the strokes.  A stroke
\* that crosses the line x = w keeps its part beyond w
fillRect(canvas, w) ==
    LET CrossingY(seg) ==
            seg[2] + ((seg[4] - seg[2]) * (w - seg[1])) \div (seg[3] - seg[1])
    IN [ canvas EXCEPT !.strokes =
           { IF seg[1] < w /\ seg[3] > w
             THEN << w, CrossingY(seg), seg[3], seg[4] >>
             ELSE IF seg[3] < w /\ seg[1] > w
                  THEN << seg[1], seg[2], w, CrossingY(seg) >>
                  ELSE seg
             : seg \in { s \in canvas.strokes : s[1] > w \/ s[3] > w } } ]

\* the Reset button
Experiment_resetExperiment ==
    /\ ~experimentRunning
    /\ currentLeverRotation' = 0
    /\ currentGraphX' = 0
    /\ observations' = << >>
    /\ imageData' = SetRotation(imageData, LeverId, 0)
    /\ canvasRefs' =
          [ id \in DOMAIN canvasRefs |->
              IF id \in AreaIds(imageData) /\ id \in DOMAIN contextRefs
              THEN fillRect(canvasRefs[id], AreaOf(imageData, id).scrollWidth)
              ELSE canvasRefs[id] ]
    /\ drawableAreaRefs' =
          [ id \in DOMAIN drawableAreaRefs |->
              IF id \in AreaIds(imageData)
              THEN [ drawableAreaRefs[id] EXCEPT !.scrollLeft = 0 ]
              ELSE drawableAreaRefs[id] ]
    /\ toast' = Some("Experiment reset - ready for new trial")
    /\ UNCHANGED << jsonInput, error, scale, experimentRunning, selectedBaseline,
                    selectedConcentration, autoScroll, contextRefs,
                    animationFrameRef, pendingFrames, runsStarted >>
    /\ UNCHANGED notExperimentVars

\* the toast's timer
Experiment_clearToast ==
    /\ toast # None
    /\ toast' = None
    /\ UNCHANGED << imageData, jsonInput, error, scale, experimentRunning,
                    selectedBaseline, selectedConcentration, currentLeverRotation,
                    observations, autoScroll, currentGraphX, canvasRefs,
                    contextRefs, drawableAreaRefs, animationFrameRef,
                    pendingFrames, runsStarted >>
    /\ UNCHANGED notExperimentVars

ExperimentInit ==
    /\ EditorIdle
    /\ ShowIdle
    /\ wrapperWidth = 1000
    /\ now = 0
    /\ scale = 100
    /\ imageData = EmptyScene
    /\ canvasRefs = << >>
    /\ contextRefs = << >>
    /\ activeTab = "setup"
    /\ experimentRunning = FALSE
    /\ selectedBaseline = 20
    /\ selectedConcentration = 5
    /\ currentLeverRotation = 0
    /\ observations = << >>
    /\ autoScroll = TRUE
    /\ currentGraphX = 0
    /\ canvasData = << >>
    /\ canvasWidths = << >>
    /\ mounted = FALSE
    /\ toast = None
    /\ drawableAreaRefs = << >>
    /\ animationFrameRef = 0
    /\ lastPenPositionRef = << >>
    /\ pendingFrames = {}
    /\ pendingRestores = {}
    /\ runsStarted = 0
    /\ maxResponse = 100

ExperimentNext ==
    \/ Experiment_setJsonInput
    \/ Experiment_handleJSONInput
    \/ Experiment_handleFileUpload
    \/ Experiment_setSelectedBaseline
    \/ Experiment_setSelectedConcentration
    \/ Experiment_setAutoScroll
    \/ Experiment_performWash
    \/ Experiment_performInjection
    \/ Experiment_washAnimate
    \/ Experiment_injectAnimate
    \/ Experiment_resetExperiment
    \/ Experiment_clearToast

SpecExperiment == ExperimentInit /\ [][ExperimentNext]_vars

(***************************************************************************)
(* C1 - clamped movement.  After an interactive move operation (a          *)
(* pointer-drag move or an arrow-key nudge) the moved image lies within    *)
(* the canvas: 0 <= x <= canvasWidth - width and 0 <= y <= canvasHeight -  *)
(* height.                                                                 *)
(***************************************************************************)
InCanvas(img, dim) ==
    /\ 0 <= img.x /\ img.x <= dim.width - img.width
    /\ 0 <= img.y /\ img.y <= dim.height - img.height

C1_ClampedMovement ==
    [][ ((handleMouseMove /\ dragState.imageId # None)
            \/ (handleKeyDown /\ selectedImage # None))
        => \A i \in DOMAIN subImages' : InCanvas(subImages'[i], baseImageDimensions) ]_vars

(***************************************************************************)
(* C2 - at most one run.  At most one animation run is pending at any      *)
(* time, and a pending run implies experimentRunning: wash and inject      *)
(* cannot start while a run is active.                                     *)
(***************************************************************************)
C2_AtMostOneRun ==
    /\ Cardinality(pendingFrames) <= 1
    /\ pendingFrames # {} => experimentRunning

\* a run is active while the Wash and Inject buttons are on screen and the
\* run budget would still allow another start
C2_RunActiveWitness ==
    /\ experimentRunning /\ Cardinality(pendingFrames) = 1
    /\ mounted /\ activeTab = "setup" /\ ImagesLoaded
    /\ runsStarted < MaxRuns
    /\ Refusal(imageData) = None

(***************************************************************************)
(* C3 - a started run finishes.  While a run is active its next frame      *)
(* stays scheduled until the completion branch sets experimentRunning to   *)
(* false: no step cancels the run.                                         *)
(***************************************************************************)
C3_StartedRunFinishes ==
    [][ (experimentRunning /\ pendingFrames # {})
        => (pendingFrames' # {} \/ ~experimentRunning') ]_vars

(***************************************************************************)
(* C4 - wash returns to zero.  The frame that completes a wash leaves      *)
(* currentLeverRotation and the rotation stored on the lever image at      *)
(* exactly 0, whatever rotation the wash started from.                     *)
(***************************************************************************)
LeverOf(data) == data.subImages[FindIndex(data.subImages, LeverId)]

C4_WashEndsAtZero ==
    [][ (washAnimate /\ experimentRunning /\ ~experimentRunning')
        => (currentLeverRotation' = 0 /\ LeverOf(imageData').rotation = 0) ]_vars

(***************************************************************************)
(* C5 - refusal without mutation.  Wash or inject invoked on a scene with  *)
(* no base image, no sub-images, no pivot or no pen-tip offset on the      *)
(* lever starts no run: experimentRunning stays false, no frame is         *)
(* scheduled, and rotation, scene, observations, graph cursor, surfaces    *)
(* and last pen positions are unchanged.                                   *)
(***************************************************************************)
Unconfigured(data) ==
    \/ data.baseImage = None
    \/ Len(data.subImages) = 0
    \/ \E i \in DOMAIN data.subImages :
          /\ data.subImages[i].id = LeverId
          /\ \/ data.subImages[i].centerX = None
             \/ data.subImages[i].centerY = None
             \/ data.subImages[i].penTipOffsetX = None
             \/ data.subImages[i].penTipOffsetY = None

C5_RefusedWithoutMutation ==
    [][ ((performWash \/ performInjection) /\ Unconfigured(imageData))
        => /\ ~experimentRunning'
           /\ pendingFrames' = {}
           /\ UNCHANGED << animationFrameRef, currentLeverRotation, imageData,
                           observations, currentGraphX, canvasRefs, canvasData,
                           canvasWidths, drawableAreaRefs, lastPenPositionRef >> ]_vars

\* an action has just been refused on an unconfigured scene
C5_RefusedWitness ==
    /\ Unconfigured(imageData)
    /\ toast \in { Some("Please load experiment data first!"),
                   Some("Lever image not properly configured!"),
                   Some("Pen tip not set on lever image!") }
    /\ ~experimentRunning /\ pendingFrames = {}

(***************************************************************************)
(* C6 - rejected import.  An import whose text does not parse, whose       *)
(* document lacks baseImage or whose subImages is not a list sets the      *)
(* error message and leaves the scene (base image, images, regions), the   *)
(* surfaces, the allocated drawing contexts, the last drawn points and the *)
(* scroll offsets exactly as they were.                                    *)
(***************************************************************************)
Rejected(text) ==
    LET parsed == JSONparse(text)
    IN \/ ~parsed.ok
       \/ parsed.data.baseImage = None
       \/ ~parsed.data.subImages.isArray

SurfaceContent(id) ==
    IF \E load \in pendingRestores : load.area = id
    THEN (CHOOSE load \in pendingRestores : load.area = id).data.strokes
    ELSE IF canvasRefs[id] # None THEN canvasRefs[id].strokes ELSE {}

PenOutsideEveryArea(data) ==
    \A i \in DOMAIN data.drawableAreas :
        LET area == data.drawableAreas[i]
            pt == PenTip(LeverOf(data), LeverOf(data).rotation)
        IN \/ pt.x < area.x \/ pt.x > area.x + area.width
           \/ pt.y < area.y \/ pt.y > area.y + area.height

C7_PenOutsideDrawsNothing ==
    [][ (injectAnimate /\ PenOutsideEveryArea(imageData'))
        => /\ lastPenPositionRef' = lastPenPositionRef
           /\ \A id \in DOMAIN canvasRefs : SurfaceContent(id)' = SurfaceContent(id)
           /\ LeverOf(imageData').rotation = currentLeverRotation'
           /\ IF experimentRunning'
              THEN pendingFrames' # {} /\ observations' = observations
              ELSE /\ pendingFrames' = {}
                   /\ Len(observations') = Len(observations) + 1
                   /\ SubSeq(observations', 1, Len(observations)) = observations ]_vars

\* an injection has completed with the pen outside the region: the lever
\* has turned, one observation is recorded, nothing is drawn
C7_PenOutsideWitness ==
    /\ Refusal(imageData) = None
    /\ PenOutsideEveryArea(imageData)
    /\ ~experimentRunning /\ Len(observations) = 1
    /\ currentLeverRotation < 0
    /\ \A id \in DOMAIN canvasRefs : SurfaceContent(id) = {}
    /\ \A id \in DOMAIN lastPenPositionRef : lastPenPositionRef[id] = None

(***************************************************************************)
(* C8 - growth preserves content.  A frame that grows a surface leaves     *)
(* every segment that was on it before, and the segment the frame itself   *)
(* draws, once the re-initialisation the stored-width update causes has    *)
(* finished.                                                               *)
(***************************************************************************)
\* the segment an inject frame draws on an area: from the run's last point
\* to the point the frame records
DrawnByFrame(id) ==
    { << run.areaLastPos[id].x, run.areaLastPos[id].y,
         lastPenPositionRef'[id].x, lastPenPositionRef'[id].y >> :
        run \in { r \in pendingFrames :
                    /\ r.areaLastPos[id] # None
                    /\ contextRefs[id] /\ canvasRefs[id] # None
                    /\ lastPenPositionRef'[id] # lastPenPositionRef[id] } }

C8_GrowthPreservesContent ==
    [][ (injectAnimate /\ canvasWidths' # canvasWidths)
        => \A id \in DOMAIN canvasRefs :
              (SurfaceContent(id) \cup DrawnByFrame(id))
                 \subseteq SurfaceContent(id)' ]_vars

(***************************************************************************)
(* C9 - surface width.  An allocated backing surface is at least three     *)
(* times its area's scrollWidth wide, and no step makes an allocated       *)
(* surface narrower.                                                       *)
(***************************************************************************)
Allocated(id) ==
    /\ id \in AreaIds(imageData)
    /\ id \in DOMAIN contextRefs /\ contextRefs[id]
    /\ id \in DOMAIN canvasRefs /\ canvasRefs[id] # None

C9_SurfaceWidthTripleAndGrowing ==
    [][ \A id \in AreaIds(imageData') :
           Allocated(id)'
           => /\ canvasRefs'[id].width >= 3 * AreaOf(imageData', id).scrollWidth
              /\ Allocated(id) => canvasRefs'[id].width >= canvasRefs[id].width
      ]_vars

(***************************************************************************)
(* C10 - scroll offset in range.  The graph cursor currentGraphX lies in   *)
(* [0, backingWidth - viewportWidth] of the first region.                  *)
(***************************************************************************)
C10_CursorWithinSurface ==
    \A i \in DOMAIN imageData.drawableAreas :
        LET area == imageData.drawableAreas[i]
        IN (i = 1 /\ mounted /\ canvasRefs[area.id] # None)
           => /\ 0 <= currentGraphX
              /\ currentGraphX <= canvasRefs[area.id].width - area.width

(***************************************************************************)
(* C11 - region-creation minimum.  The mouseup that ends an area-creation  *)
(* drag adds exactly one region when neither the width nor the height of   *)
(* the dragged rectangle is below 20 canonical pixels, and adds no region  *)
(* when either is below 20.                                                *)
(***************************************************************************)
DragSize(p) ==
    [ width |-> Abs(ToCanonical(p[1], scale) - areaStart.x),
      height |-> Abs(ToCanonical(p[2], scale) - areaStart.y) ]

C11_RegionIffNotBelowMinimum ==
    [][ \A p \in PointerReleases :
           handleCanvasMouseUpAt(p)
           => IF DragSize(p).width >= 20 /\ DragSize(p).height >= 20
              THEN Len(drawableAreas') = Len(drawableAreas) + 1
              ELSE drawableAreas' = drawableAreas ]_vars

(***************************************************************************)
(* C12 - snapshot round trip.  Leaving the setup view stores, for every    *)
(* region with a surface, a snapshot whose content is the content of the   *)
(* surface at that moment; returning to the setup view starts the restore  *)
(* of every stored snapshot; and a restore leaves on the surface exactly   *)
(* the content of the snapshot it loads.                                   *)
(***************************************************************************)
Content(bitmap) == [ strokes |-> bitmap.strokes, grid |-> bitmap.grid ]

C13_NoOtherWriterDuringRun ==
    [][ (mounted /\ experimentRunning /\ pendingFrames # {})
        => \/ washAnimate \/ injectAnimate \/ restoreOnload
           \/ UNCHANGED << currentLeverRotation, imageData, canvasRefs,
                           contextRefs, drawableAreaRefs, canvasData >> ]_vars

(***************************************************************************)
(* C14 - pen tip implies pivot.  Every image of the scene whose pen-tip    *)
(* offset is set also has its pivot set.                                   *)
(***************************************************************************)
C14_PenTipImpliesPivot ==
    \A i \in DOMAIN imageData.subImages :
        LET img == imageData.subImages[i]
        IN (img.penTipOffsetX # None \/ img.penTipOffsetY # None)
           => (img.centerX # None /\ img.centerY # None)

(***************************************************************************)
(* C15 - one observation per injection.  The frame that completes an       *)
(* inject run appends exactly one record: sNo is the previous length of    *)
(* the log plus one, concentration the selected baseline, amountAdded the  *)
(* selected volume, concInBath baseline x volume / bath volume, response   *)
(* and percentResponse empty.  Every other frame, every wash and every     *)
(* start or refusal of an action leaves the log as it is.  Stated for the  *)
(* Experiment page (C15_ExperimentObservation) and for Exp1Page            *)
(* (C15_OneObservationPerInjection).                                       *)
(***************************************************************************)
\* concInBath in ten-thousandths, from a volume in hundredths of a millilitre
DoseInBath(baseline, volume) == (baseline * volume * 100) \div 20

\* the record the completing frame is to append
DoseRecord ==
    [ sNo |-> Len(observations) + 1,
      concentration |-> selectedBaseline,
      amountAdded |-> selectedConcentration,
      concInBath |-> DoseInBath(selectedBaseline, selectedConcentration),
      response |-> "",
      percentResponse |-> "" ]

C15_ExperimentObservation ==
    [][ /\ (Experiment_injectAnimate /\ experimentRunning /\ ~experimentRunning')
           => observations' = Append(observations, DoseRecord)
        /\ (Experiment_injectAnimate /\ experimentRunning')
           => observations' = observations
        /\ (Experiment_washAnimate \/ Experiment_performWash
               \/ Experiment_performInjection)
           => observations' = observations ]_vars

C15_OneObservationPerInjection ==
    [][ /\ (injectAnimate /\ experimentRunning /\ ~experimentRunning')
           => observations' = Append(observations, DoseRecord)
        /\ (injectAnimate /\ experimentRunning') => observations' = observations
        /\ (washAnimate \/ performWash \/ performInjection)
           => observations' = observations ]_vars

\* two injections have completed; one of them was of 0.05 ml at baseline 20
\* and is logged with concInBath 0.05
C15_TwoObservationsWitness ==
    /\ Len(observations) = 2
    /\ observations[2].sNo = 2
    /\ \E i \in 1..2 :
          /\ observations[i].sNo = i
          /\ observations[i].concentration = 20
          /\ observations[i].amountAdded = 5
          /\ observations[i].concInBath = 500

(***************************************************************************)
(* C16 - percentages follow the maximum response.  In every reachable      *)
(* state every observation whose response is known has percentResponse =   *)
(* 100 x response / maxResponse, formatted as the table formats it, for    *)
(* the maxResponse the state holds.                                        *)
(***************************************************************************)
C16_PercentagesCurrent ==
    \A i \in DOMAIN observations :
        HasResponse(observations[i])
          => observations[i].percentResponse
               = PercentOf(Val(parseFloat(observations[i].response)), maxResponse)

(***************************************************************************)
(* C17 - image ids are unique.  Whatever files are uploaded, one at a time *)
(* or in batches, and whenever their load callbacks run, no two images of  *)
(* the scene have the same id.                                             *)
(***************************************************************************)
C17_UniqueImageIds ==
    \A i, j \in DOMAIN subImages : subImages[i].id = subImages[j].id => i = j

(***************************************************************************)
(* C18 - the scale fits the viewport.  In every reachable state with a     *)
(* base image the display scale is min(viewportWidth / contentWidth,       *)
(* viewportHeight / contentHeight, 1) for the content dimensions and the   *)
(* viewport the state holds.                                               *)
(***************************************************************************)
C18_ScaleFitsViewport ==
    baseImageDimensions # None
      => scale = ScaleOf(baseImageDimensions, wrapperWidth, 600)

(***************************************************************************)
(* C19 - drawing without a surface is a no-op.  A frame of an inject run   *)
(* that finds a region without a drawing context draws nothing on it and   *)
(* leaves its last pen position and the scroll offset of its container as  *)
(* they were.  (Frames that end the run are left out: the effects that     *)
(* follow them write the scroll offset for another reason.)                *)
(***************************************************************************)
C19_NoContextNoOp ==
    [][ (injectAnimate /\ experimentRunning')
          => \A id \in DOMAIN contextRefs :
               ~contextRefs[id]
                 => /\ canvasRefs'[id] = canvasRefs[id]
                    /\ lastPenPositionRef'[id] = lastPenPositionRef[id]
                    /\ drawableAreaRefs'[id] = drawableAreaRefs[id] ]_vars


(***************************************************************************)
(* C20: reorder(id, up/down) swaps the zIndex of the item with that of its *)
(* immediate neighbour in the scene's z-order taken over all images and    *)
(* regions, leaves every other item's zIndex unchanged, and changes        *)
(* nothing when the item is already last (up) or first (down) in z-order.  *)
(* Stated for scenes whose items are told apart by their ids and their     *)
(* zIndex values, where the neighbour is unique.                           *)
(***************************************************************************)
\* the zIndex of a listed item in the given lists
ZIndexOf(images, areas, item) ==
    IF item.type = "image" THEN images[FindIndex(images, item.id)].zIndex
    ELSE areas[FindIndex(areas, item.id)].zIndex

\* no two items of the scene share an id or a zIndex
DistinctScene ==
    /\ Cardinality(ListedItems) = Len(subImages) + Len(drawableAreas)
    /\ \A a, b \in ListedItems :
          ZIndexOf(subImages, drawableAreas, a) = ZIndexOf(subImages, drawableAreas, b)
             => a = b

\* the items in front of (up) or behind (down) the item in the z-order over
\* all images and regions
Beyond(item, direction) ==
    { k \in ListedItems :
        IF direction = "up"
        THEN ZIndexOf(subImages, drawableAreas, k) > ZIndexOf(subImages, drawableAreas, item)
        ELSE ZIndexOf(subImages, drawableAreas, k) < ZIndexOf(subImages, drawableAreas, item) }

\* the nearest of them
Neighbour(item, direction) ==
    CHOOSE n \in Beyond(item, direction) : \A k \in Beyond(item, direction) :
        Abs(ZIndexOf(subImages, drawableAreas, k) - ZIndexOf(subImages, drawableAreas, item))
           >= Abs(ZIndexOf(subImages, drawableAreas, n) - ZIndexOf(subImages, drawableAreas, item))

C20_ReorderSwapsNeighbour ==
    [][ \A item \in ListedItems, direction \in { "up", "down" } :
          (PointerFree /\ DistinctScene /\ changeZIndexOf(item.id, direction, item.type))
          => IF Beyond(item, direction) = {}
             THEN \A k \in ListedItems :
                     ZIndexOf(subImages', drawableAreas', k)
                        = ZIndexOf(subImages, drawableAreas, k)
             ELSE /\ ZIndexOf(subImages', drawableAreas', item)
                        = ZIndexOf(subImages, drawableAreas, Neighbour(item, direction))
                  /\ ZIndexOf(subImages', drawableAreas', Neighbour(item, direction))
                        = ZIndexOf(subImages, drawableAreas, item)
                  /\ \A k \in ListedItems \ { item, Neighbour(item, direction) } :
                        ZIndexOf(subImages', drawableAreas', k)
                           = ZIndexOf(subImages, drawableAreas, k) ]_vars

\* the same exchange holds among the images of a scene without regions
C20_ReorderAmongImages ==
    [][ \A item \in ListedItems, direction \in { "up", "down" } :
          (PointerFree /\ DistinctScene /\ drawableAreas = << >>
             /\ changeZIndexOf(item.id, direction, item.type))
          => IF Beyond(item, direction) = {}
             THEN subImages' = SortByZIndex(subImages)
             ELSE /\ ZIndexOf(subImages', drawableAreas', item)
                        = ZIndexOf(subImages, drawableAreas, Neighbour(item, direction))
                  /\ ZIndexOf(subImages', drawableAreas', Neighbour(item, direction))
                        = ZIndexOf(subImages, drawableAreas, item) ]_vars

(***************************************************************************)
(* C21: at every inject frame in which a point is drawn on a region, the   *)
(* x-coordinate drawn on the backing surface equals (penTipX - region.x)   *)
(* plus the region's actual current scroll offset at that frame, whether   *)
(* auto-scroll is on or off and whether or not the scroll was clamped.     *)
(* The scroll offset is read back from the container in device pixels, so  *)
(* the two may differ by the canonical length of one device pixel.         *)
(***************************************************************************)
\* the canonical length of one device pixel, rounded up
DevicePixel == (100 + scale - 1) \div scale

\* the regions on which this step recorded a drawn point
DrawnPointAreas ==
    { id \in DOMAIN lastPenPositionRef :
        /\ lastPenPositionRef'[id] # None
        /\ lastPenPositionRef'[id] # lastPenPositionRef[id] }

C21_DrawnAtScrollOffset ==
    [][ (injectAnimate /\ experimentRunning')
        => \A id \in DrawnPointAreas :
              drawableAreaRefs'[id] # None
              => Abs(lastPenPositionRef'[id].x
                       - ((PenTip(LeverOf(imageData), currentLeverRotation').x
                             - AreaOf(imageData, id).x)
                          + ScrollOf(drawableAreaRefs', id, scale)))
                    <= DevicePixel ]_vars

\* with auto-scroll on, a point is drawn away from the scroll offset only
\* when the browser has clamped the container's scroll
C21_DrawnAtScrollOffsetAutoScroll ==
    [][ (injectAnimate /\ experimentRunning' /\ \A run \in pendingFrames : run.autoScroll)
        => \A id \in DrawnPointAreas :
              drawableAreaRefs'[id] # None
              => \/ Abs(lastPenPositionRef'[id].x
                         - ((PenTip(LeverOf(imageData), currentLeverRotation').x
                               - AreaOf(imageData, id).x)
                            + ScrollOf(drawableAreaRefs', id, scale)))
                      <= DevicePixel
                 \/ lastPenPositionRef'[id].x
                      > (PenTip(LeverOf(imageData), currentLeverRotation').x
                            - AreaOf(imageData, id).x)
                        + ScrollOf(drawableAreaRefs', id, scale) ]_vars

(***************************************************************************)
(* C22: after a full experiment reset every region's backing surface       *)
(* contains no drawn stroke anywhere over its whole current width (it is   *)
(* cleared and re-gridded), the surface stays allocated, the lever         *)
(* rotation is 0, the observation log is empty and the graph cursor is 0.  *)
(***************************************************************************)
C22_ResetClearsSurfaces ==
    [][ (resetExperiment \/ Experiment_resetExperiment)
        => /\ \A id \in AreaIds(imageData) :
                Allocated(id)
                => /\ id \in DOMAIN canvasRefs' /\ canvasRefs'[id] # None
                   /\ id \in DOMAIN contextRefs' /\ contextRefs'[id]
                   /\ canvasRefs'[id].strokes = {}
                   /\ canvasRefs'[id].grid
           /\ currentLeverRotation' = 0
           /\ \A i \in DOMAIN imageData'.subImages :
                 imageData'.subImages[i].rotation = 0
           /\ observations' = << >>
           /\ currentGraphX' = 0 ]_vars

(***************************************************************************)
(* C23: on wash completion exactly one straight segment is drawn on each   *)
(* region that contains the pen tip's start position, running from the pen *)
(* tip's position at animation start to its position at rotation 0, and    *)
(* the scroll offset is then advanced by the fixed amount 15 (clamped to   *)
(* the valid range).                                                       *)
(***************************************************************************)
\* the step is the frame that completes a wash
WashCompletes == washAnimate /\ experimentRunning /\ ~experimentRunning'

\* a point of the scene in the coordinates of a region's backing surface,
\* at the region's scroll offset before the step
OnSurface(area, pt) ==
    [ x |-> (pt.x - area.x) + ScrollOf(drawableAreaRefs, area.id, scale),
      y |-> pt.y - area.y ]

\* the strokes the step has added to the saved bitmap of a region
AddedStrokes(id) == canvasData'[id].strokes \ canvasRefs[id].strokes

\* the completing frame draws from(run, area) -> pen tip at rotation 0 on
\* the regions that contain the start pen tip, nothing elsewhere, and
\* advances the scroll offset of the first region by 15, clamped
WashCompletion(from(_, _)) ==
    \A run \in pendingFrames :
       LET startPenTip == PenTip(run.leverImage, run.startRotation)
           baselinePenTip == PenTip(run.leverImage, 0)
           areas == run.imageData.drawableAreas
       IN /\ \A i \in DOMAIN areas :
                Allocated(areas[i].id)
                => AddedStrokes(areas[i].id) \subseteq
                      IF Contains(areas[i], startPenTip)
                      THEN { << from(run, areas[i]).x, from(run, areas[i]).y,
                                OnSurface(areas[i], baselinePenTip).x,
                                OnSurface(areas[i], baselinePenTip).y >> }
                      ELSE {}
          /\ \A i \in DOMAIN areas :
                (Allocated(areas[i].id) /\ Contains(areas[i], startPenTip))
                => << from(run, areas[i]).x, from(run, areas[i]).y,
                      OnSurface(areas[i], baselinePenTip).x,
                      OnSurface(areas[i], baselinePenTip).y >>
                         \in canvasData'[areas[i].id].strokes
          /\ (Len(areas) > 0 /\ drawableAreaRefs[areas[1].id] # None)
                => /\ currentGraphX' =
                         Max(0, Min(ScrollOf(drawableAreaRefs, areas[1].id, scale) + 15,
                                    MaxScrollLeft(canvasRefs[areas[1].id], areas[1])))
                   /\ drawableAreaRefs'[areas[1].id] =
                         SetScrollLeft(drawableAreaRefs[areas[1].id],
                                       (currentGraphX' * scale) \div 100,
                                       areas[1], canvasWidths, scale)

\* the pen tip's position at animation start
FromStartPenTip(run, area) ==
    OnSurface(area, PenTip(run.leverImage, run.startRotation))

C23_WashSegmentFromStart ==
    [][ WashCompletes => WashCompletion(FromStartPenTip) ]_vars

\* the last point drawn on the region if there is one, else the pen tip's
\* position at animation start
FromLastPoint(run, area) ==
    IF lastPenPositionRef[area.id] # None THEN lastPenPositionRef[area.id]
    ELSE FromStartPenTip(run, area)

\* C23 as the code has it: the segment starts at the region's last drawn
\* point when it has one
C23_WashSegmentFromLastPoint ==
    [][ WashCompletes => WashCompletion(FromLastPoint) ]_vars

\* a wash has completed and its segment starts at the last point drawn
\* before it, away from the point where the segment ends
C23_WashSegmentWitness ==
    /\ ~experimentRunning
    /\ toast = Some("Wash completed")
    /\ \E id \in DOMAIN canvasData :
          /\ canvasData[id] # None
          /\ lastPenPositionRef[id] # None
          /\ \E seg \in canvasData[id].strokes :
                /\ seg[3] = lastPenPositionRef[id].x
                /\ seg[4] = lastPenPositionRef[id].y
                /\ seg[1] # seg[3]

(***************************************************************************)
(* C24: during any run, however late or irregularly frames are delivered,  *)
(* the elapsed time used is clamped to [0, duration] and the rotation      *)
(* written at every frame lies between the run's start rotation and its    *)
(* target rotation inclusive.  A frame that uses an elapsed time within    *)
(* [0, duration] writes a rotation between the start rotation and the      *)
(* rotation of the frame at elapsed = duration, which is the bound stated. *)
(***************************************************************************)
Between(v, a, b) == Min(a, b) <= v /\ v <= Max(a, b)

\* the rotation a run writes at elapsed = duration
RotationAtDuration(run) ==
    RotationAt(run, IF run.kind = "wash" THEN WashEase(FP) ELSE InjectEase(FP))

C24_RotationWithinRun ==
    [][ (washAnimate \/ injectAnimate)
        => \A run \in pendingFrames :
              /\ Between(currentLeverRotation', run.startRotation,
                         RotationAtDuration(run))
              /\ Between(RotationAtDuration(run), run.startRotation,
                         run.targetRotation) ]_vars

\* a wash that started from a rotated lever has completed; its last frame
\* came after the end of its duration
C24_LateFrameWitness ==
    /\ ~experimentRunning
    /\ toast = Some("Wash completed")
    /\ currentLeverRotation # 0

(***************************************************************************)
(* C25: point placement is one-shot.  When pivot or pen-tip placement is   *)
(* armed, the next canvas click performs exactly one placement on the      *)
(* selected image (pivot = click point in canonical space; pen-tip offset  *)
(* = click point minus the image's current top-left) and disarms the mode, *)
(* so later clicks place nothing until the mode is armed again: while no   *)
(* mode is armed, only loading or clearing the scene changes a pivot or a  *)
(* pen-tip offset.                                                         *)
(***************************************************************************)
\* the pivots and pen-tip offsets of the scene
Placements(data) ==
    [ i \in DOMAIN data.subImages |->
        << data.subImages[i].centerX, data.subImages[i].centerY,
           data.subImages[i].penTipOffsetX, data.subImages[i].penTipOffsetY >> ]

\* the selected image after a placement at the canonical point (x, y)
Placed(img, x, y) ==
    IF settingCenter
    THEN [ img EXCEPT !.centerX = Some(x), !.centerY = Some(y) ]
    ELSE [ img EXCEPT !.penTipOffsetX = Some(x - img.x),
                      !.penTipOffsetY = Some(y - img.y) ]

C25_OneShotPlacement ==
    [][ /\ (handleCanvasClick /\ HasSelectedImg)
           => /\ ~settingCenter' /\ ~settingPenTip'
              /\ \E p \in ShowClicks :
                    imageData' = [ imageData EXCEPT !.subImages =
                       [ i \in DOMAIN imageData.subImages |->
                           IF imageData.subImages[i].id = Val(selectedImage)
                           THEN Placed(imageData.subImages[i],
                                       ToCanonical(p[1], scale),
                                       ToCanonical(p[2], scale))
                           ELSE imageData.subImages[i] ] ]
        /\ (~settingCenter /\ ~settingPenTip /\ ~handleJSONInput /\ ~clearData)
           => (/\ DOMAIN imageData'.subImages = DOMAIN imageData.subImages
               /\ Placements(imageData') = Placements(imageData)) ]_vars

\* a pivot and a pen tip have been placed by clicks on the selected image
\* and no placement is armed
C25_PlacedAndDisarmedWitness ==
    /\ ~settingCenter /\ ~settingPenTip
    /\ HasSelectedImg
    /\ \E i \in DOMAIN imageData.subImages, p \in ShowClicks :
          LET img == imageData.subImages[i]
          IN /\ img.id = Val(selectedImage)
             /\ img.centerX = Some(ToCanonical(p[1], scale))
             /\ img.centerY = Some(ToCanonical(p[2], scale))
             /\ img.penTipOffsetX = Some(ToCanonical(p[1], scale) - img.x)
             /\ img.penTipOffsetY = Some(ToCanonical(p[2], scale) - img.y)

\* the layout editor places pivots only, in the same one-shot way
C25_EditorOneShotPivot ==
    [][ /\ (Editor_handleCanvasClick /\ selectedImage # None)
           => /\ ~settingCenter'
              /\ \E p \in PointerInside :
                    subImages' =
                       [ i \in DOMAIN subImages |->
                           IF subImages[i].id = selectedImage
                           THEN [ subImages[i] EXCEPT
                                    !.centerX = Some(ToCanonical(p[1], scale)),
                                    !.centerY = Some(ToCanonical(p[2], scale)) ]
                           ELSE subImages[i] ]
        /\ ~settingCenter
           => \A i \in DOMAIN subImages :
                 /\ i \in DOMAIN subImages'
                 /\ subImages'[i].centerX = subImages[i].centerX
                 /\ subImages'[i].centerY = subImages[i].centerY ]_vars

(***************************************************************************)
(* C26: a rotate drag can begin only on an image that already has a pivot. *)
(* Pointer-down on an image without a pivot starts no rotation drag, and   *)
(* no later pointer-move changes that image's rotation or draws on any     *)
(* region until a pivot has been set and a new drag started: every step    *)
(* that starts a drag starts it on an image with a pivot, and every        *)
(* pointer-move that rotates or draws does so for the image of the drag in *)
(* progress, which has a pivot.                                            *)
(***************************************************************************)
\* the scene has an image of that id, and its first one has a pivot
HasPivot(data, id) ==
    /\ FindIndex(data.subImages, id) # 0
    /\ data.subImages[FindIndex(data.subImages, id)].centerX # None
    /\ data.subImages[FindIndex(data.subImages, id)].centerY # None

\* the step strokes on the canvas of some region
StrokesAdded ==
    \E id \in DOMAIN canvasRefs \cap DOMAIN canvasRefs' :
       /\ canvasRefs[id] # None /\ canvasRefs'[id] # None
       /\ ~(canvasRefs'[id].strokes \subseteq canvasRefs[id].strokes)

C26_RotateNeedsPivot ==
    [][ /\ (rotatingImage' # rotatingImage /\ rotatingImage' # None)
           => HasPivot(imageData, Val(rotatingImage'))
        /\ (Showcase_handleMouseMove \/ StrokesAdded)
           => /\ rotatingImage # None
              /\ HasPivot(imageData, Val(rotatingImage))
              /\ \A i \in DOMAIN imageData.subImages :
                    imageData.subImages[i].id # Val(rotatingImage)
                    => imageData'.subImages[i] = imageData.subImages[i] ]_vars

\* an image without a pivot is under the pointer, no placement is armed and
\* no drag is in progress: the mouse-down on it has left the state as it is
C26_NoPivotUnderPointerWitness ==
    /\ ~(settingCenter \/ settingPenTip)
    /\ ~Falsy(imageData.baseImage)
    /\ rotatingImage = None
    /\ showMoves > 0
    /\ \E i \in DOMAIN imageData.subImages, p \in ShowPointers :
          /\ PointerOverImage(imageData.subImages[i],
                              ToCanonical(p[1], scale), ToCanonical(p[2], scale))
          /\ imageData.subImages[i].centerX = None

(***************************************************************************)
(* C27: whenever no run is active, currentLeverRotation equals the         *)
(* rotation stored on the lever image in the scene model, after any        *)
(* sequence of inject, wash, reset and import operations.                  *)
(***************************************************************************)
C27_SingleRotationValue ==
    (~experimentRunning /\ FindIndex(imageData.subImages, LeverId) # 0)
    => LeverOf(imageData).rotation = currentLeverRotation

(***************************************************************************)
(* C28: after a full experiment reset, no segment drawn by a later run     *)
(* starts at a point recorded before the reset: each region's persisted    *)
(* last pen position is cleared by reset, so the first draw after a reset  *)
(* does not connect to the pre-reset trace.  On a surface that is blank    *)
(* since the reset (empty log, graph cursor 0, nothing to restore) the     *)
(* first frame of an injection has no earlier point to start a segment     *)
(* from, so it leaves the surface without a stroke.                        *)
(***************************************************************************)
C28_FreshTraceAfterReset ==
    [][ injectAnimate
        => \A run \in pendingFrames : \A id \in DOMAIN canvasRefs :
              (/\ run.kind = "inject" /\ run.elapsed = 0
               /\ observations = << >> /\ currentGraphX = 0
               /\ pendingRestores = {} /\ canvasData[id] = None
               /\ canvasRefs[id] # None /\ canvasRefs[id].strokes = {})
              => SurfaceContent(id)' = {} ]_vars

(***************************************************************************)
(* C29: for an image or a drawable region lying within the canvas bounds,  *)
(* a drag whose pointer-move happens at exactly the pointer-down position  *)
(* leaves the entity's (x, y) unchanged: the grab offset is the pointer's  *)
(* canonical position minus the entity's top-left on both axes, so the     *)
(* entity never jumps at the start of a drag.                              *)
(***************************************************************************)
\* the entity a drag state holds
Grabbed(drag) ==
    IF drag.imageId # None
    THEN subImages[FindIndex(subImages, drag.imageId)]
    ELSE drawableAreas[FindIndex(drawableAreas, drag.areaId)]

\* with the grab offset of that drag state, a pointer-move at the
\* pointer-down position puts the entity where it is
NoJump(drag) ==
    LET item == Grabbed(drag)
        cx == ToCanonical(drag.startX, scale)
        cy == ToCanonical(drag.startY, scale)
    IN InCanvas(item, baseImageDimensions)
       => /\ drag.offsetX = cx - item.x
          /\ drag.offsetY = cy - item.y
          /\ Max(0, Min(cx - drag.offsetX,
                        baseImageDimensions.width - item.width)) = item.x
          /\ Max(0, Min(cy - drag.offsetY,
                        baseImageDimensions.height - item.height)) = item.y

C29_NoJumpAtDragStart ==
    [][ handleMouseDown => NoJump(dragState') ]_vars

\* the same for the drags that grab an image
C29_NoJumpAtImageDragStart ==
    [][ (handleMouseDown /\ dragState'.imageId # None) => NoJump(dragState') ]_vars

(***************************************************************************)
(* C30: in every reachable state the observation log's sequence numbers    *)
(* are exactly 1..n in list order (the i-th record of the list, counted    *)
(* from 1, has sNo = i), after any sequence of injects, washes, response   *)
(* edits, resets and imports.                                              *)
(***************************************************************************)
C30_SequenceNumbersInOrder ==
    \A i \in DOMAIN observations : observations[i].sNo = i

\* two injections have completed and the log holds their two records
C30_TwoRecordsWitness ==
    /\ ~experimentRunning
    /\ Len(observations) = 2
    /\ runsStarted = 2

====
